---- MODULE Spec2Model ----
(***************************************************************************)
(* NetHID (desaster/nethid): a model of the HID core (src/src/usb.c), the  *)
(* HTTP connection pool and framed channel (src/src/httpd), the settings   *)
(* store (src/src/settings.c) and the pub/sub client (src/src/mqtt).       *)
(***************************************************************************)
EXTENDS Integers, Sequences, FiniteSets, TLC

VARIABLES
    usb,      \* usb.c statics and the board flags they own
    ep,       \* report id in flight on the HID IN endpoint, or "NONE"
    host,     \* last report of each class the host received
    hist,     \* observations kept for the properties (never read by the code)
    httpd,    \* the connection pool, ws_active_conn, current_mouse_buttons
    wire,     \* what the last network handler was given and what it wrote
    flash,    \* the bytes of the config sector that hold flash_config_t
    setting,  \* the last Settings Store call: what it was asked to write
    mqtt,     \* mqtt.c statics: state, client, reconnect delay, backoff start
    clock,    \* board_millis()
    backoff,  \* observations of the reconnect waits (never read by the code)
    dev,      \* the supervisor: main.c's mode and the BOOTSEL state machine
    button,   \* the BOOTSEL button is held down
    bootlog,  \* observations of boots and reboots (never read by the code)
    broker    \* topic buffers of mqtt.c and what is exchanged with the broker

hidVars == <<usb, ep, host>>
netVars == <<httpd, wire>>
storeVars == <<flash, setting>>
mqttVars == <<mqtt, clock, backoff, broker>>
bootVars == <<dev, button, bootlog>>
vars == <<usb, ep, host, hist, httpd, wire, flash, setting,
          mqtt, clock, backoff, dev, button, bootlog, broker>>

(***************************************************************************)
(* Program constants                                                       *)
(***************************************************************************)
KEY_SLOTS == 6
FIFO_KEYBOARD_LEN == 32
FIFO_CONSUMER_LEN == 32
FIFO_SYSTEM_LEN == 32
FIFO_MOUSE_BTN_LEN == 8
CLAMP_MAX == 127
SYSTEM_USAGE_BASE == 128
HTTP_MAX_CONNECTIONS == 6
\* The 16-bit LED patterns of board.h.
BLINK_CAPSLOCK == 65535
BLINK_SUSPENDED == 3855
BLINK_MOUNTED_WIFI_UP == 13107
BLINK_NOT_MOUNTED_WIFI_UP == 40960
BLINK_MOUNTED_WIFI_DOWN == 43008
BLINK_NOT_MOUNTED_WIFI_DOWN == 43520
KEYBOARD_LED_CAPSLOCK == 2
HTTP_RECV_BUF_SIZE == 2048
HTTP_TIMEOUT_TICKS == 4
WS_RECV_BUF_SIZE == 512
WS_FRAME_BUF_SIZE == 256
WS_OPCODE_TEXT == 1
WS_OPCODE_BINARY == 2
WS_OPCODE_CLOSE == 8
WS_OPCODE_PING == 9
WS_OPCODE_PONG == 10
HID_CMD_KEY == 1
HID_CMD_MOUSE_MOVE == 2
HID_CMD_MOUSE_BUTTON == 3
HID_CMD_SCROLL == 4
HID_CMD_CONSUMER == 6
HID_CMD_SYSTEM == 7
HID_CMD_RELEASE_ALL == 15
WS_CLOSE_TAKEOVER == 4001
\* 0x4E455436
CONFIG_MAGIC == 1313166390
\* 0xDEADBEEF as the four bytes of a little-endian uint32_t
CHECKSUM_XOR == <<239, 190, 173, 222>>
ERASED_BYTE == 255
HOSTNAME_MAX_LEN == 32
MQTT_USERNAME_MAX_LEN == 31
MQTT_DEFAULT_PORT == 1883
SYSLOG_DEFAULT_PORT == 514
SETTINGS_FLAG_HOSTNAME == 1
SETTINGS_FLAG_MQTT_PORT == 4
SETTINGS_FLAG_MQTT_USER == 16
MQTT_RECONNECT_MIN_MS == 1000
MQTT_RECONNECT_MAX_MS == 60000
MQTT_RECONNECT_MULT == 2
MQTT_TOPIC_MAX_LEN == 63
WIFI_SSID_MAX_LEN == 32
WIFI_PASSWORD_MAX_LEN == 64
BOOTSEL_HOLD_TIME_MS == 5000
\* ap_mode.c's own CONFIG_MAGIC, 0x4E455433
AP_CONFIG_MAGIC == 1313166387

(***************************************************************************)
(* Bounds of the model                                                     *)
(***************************************************************************)
MaxKbdPending == 2      \* key events are issued while fewer snapshots wait
MaxMoves == 3           \* movement calls modelled per mount session
MaxClients == 2         \* TCP connections open at the same time
MaxQueued == 2          \* frames are taken while fewer reports wait
MaxClock == 130         \* the clock runs this many shortest delays
MaxBoots == 4           \* boots in one behaviour
SegmentMax == 1460      \* the longest TCP segment a client sends
HeadersLen == 100       \* bytes of a POST's request line and headers
MaxFifties == 8         \* one movement is up to this many times 50 counts
MaxHeld == 6            \* the button is watched this many ticks per boot
BootTickMs == 1000      \* the step of the clock while the button is watched

(***************************************************************************)
(* Integer conversions                                                     *)
(***************************************************************************)
ToU8(x) == x % 256

\* (int8_t) as the compiler of the build converts: modulo 2^8.
ToInt8(x) ==
    LET m == x % 256 IN IF m >= 128 THEN m - 256 ELSE m

ToInt16(x) ==
    LET m == x % 65536 IN IF m >= 32768 THEN m - 65536 ELSE m

Abs(x) == IF x < 0 THEN -x ELSE x

(***************************************************************************)
(* pico queue_t                                                            *)
(***************************************************************************)
queue_is_empty(q) == Len(q) = 0

queue_is_full(q, cap) == Len(q) >= cap

\* queue_try_add that puts the element at the head of the queue.
queue_try_add_front(q, e, cap) ==
    IF Len(q) < cap THEN <<e>> \o q ELSE q

queue_try_add(q, e, cap) ==
    IF Len(q) < cap THEN Append(q, e) ELSE q

(***************************************************************************)
(* usb.c state                                                             *)
(***************************************************************************)
Slots == 1..KEY_SLOTS

ZeroKeys == [i \in Slots |-> 0]

ZeroAcc == [dx |-> 0, dy |-> 0, vertical |-> 0, horizontal |-> 0,
            buttons |-> 0, last_sent_buttons |-> 0]

UsbInit ==
    [usb_mounted |-> FALSE, usb_suspended |-> FALSE, capslock_on |-> FALSE,
     remote_wakeup_enabled |-> FALSE, queues_initialized |-> FALSE,
     keycodes |-> ZeroKeys,
     fifo_keyboard |-> <<>>, fifo_consumer |-> <<>>, fifo_system |-> <<>>,
     fifo_mouse_btn |-> <<>>,
     mouse_acc |-> ZeroAcc,
     blink_state |-> BLINK_NOT_MOUNTED_WIFI_DOWN]

\* update_blink_state, wifi_up as board.c holds it at the call.
update_blink_state(u, wifi_up) ==
    [u EXCEPT !.blink_state =
        IF u.usb_suspended THEN BLINK_SUSPENDED
        ELSE IF wifi_up /\ u.usb_mounted THEN BLINK_MOUNTED_WIFI_UP
        ELSE IF wifi_up /\ ~u.usb_mounted THEN BLINK_NOT_MOUNTED_WIFI_UP
        ELSE IF ~wifi_up /\ u.usb_mounted THEN BLINK_MOUNTED_WIFI_DOWN
        ELSE BLINK_NOT_MOUNTED_WIFI_DOWN]

\* tud_hid_set_report_cb up to its call of update_blink_state.
tud_hid_set_report_cb(u, report_type, report_id, bufsize, kbd_leds) ==
    IF report_type # "OUTPUT" \/ report_id # "KEYBOARD" \/ bufsize < 1 THEN u
    ELSE [u EXCEPT !.capslock_on =
            (kbd_leds \div KEYBOARD_LED_CAPSLOCK) % 2 = 1]

\* mouse_has_pending without the comparison of the mask with the last one sent.
mouse_has_pending_no_mask(u) ==
    \/ ~queue_is_empty(u.fifo_mouse_btn)
    \/ u.mouse_acc.dx # 0 \/ u.mouse_acc.dy # 0
    \/ u.mouse_acc.vertical # 0 \/ u.mouse_acc.horizontal # 0

mouse_has_pending(u) ==
    \/ ~queue_is_empty(u.fifo_mouse_btn)
    \/ u.mouse_acc.dx # 0 \/ u.mouse_acc.dy # 0
    \/ u.mouse_acc.vertical # 0 \/ u.mouse_acc.horizontal # 0
    \/ u.mouse_acc.buttons # u.mouse_acc.last_sent_buttons

tud_mount_cb(u) ==
    [u EXCEPT !.fifo_keyboard = <<>>, !.fifo_consumer = <<>>,
              !.fifo_system = <<>>, !.fifo_mouse_btn = <<>>,
              !.queues_initialized = TRUE,
              !.mouse_acc = ZeroAcc,
              !.usb_mounted = TRUE, !.usb_suspended = FALSE,
              !.remote_wakeup_enabled = FALSE]

tud_umount_cb(u) ==
    [u EXCEPT !.fifo_keyboard = <<>>, !.fifo_consumer = <<>>,
              !.fifo_system = <<>>, !.fifo_mouse_btn = <<>>,
              !.queues_initialized = FALSE,
              !.mouse_acc = ZeroAcc,
              !.usb_mounted = FALSE,
              !.remote_wakeup_enabled = FALSE]

tud_suspend_cb(u, remote_wakeup_en) ==
    [u EXCEPT !.remote_wakeup_enabled = remote_wakeup_en,
              !.usb_suspended = TRUE]

tud_resume_cb(u) == [u EXCEPT !.usb_suspended = FALSE]

\* The first slot holding v, or 0 when no slot does.
FirstSlot(kc, v) ==
    IF \E i \in Slots : kc[i] = v
    THEN CHOOSE i \in Slots : kc[i] = v /\ \A j \in Slots : j < i => kc[j] # v
    ELSE 0

\* key is a uint16_t; keycodes[] holds uint8_t, so the store truncates.
press_key(u, key) ==
    IF ~u.usb_mounted THEN u
    ELSE IF FirstSlot(u.keycodes, key) # 0 THEN u
    ELSE IF FirstSlot(u.keycodes, 0) = 0 THEN u
    ELSE LET kc == [u.keycodes EXCEPT ![FirstSlot(u.keycodes, 0)] = ToU8(key)]
         IN [u EXCEPT !.keycodes = kc,
                      !.fifo_keyboard = queue_try_add(@, kc, FIFO_KEYBOARD_LEN)]

depress_key(u, key) ==
    IF ~u.usb_mounted THEN u
    ELSE IF FirstSlot(u.keycodes, key) = 0 THEN u
    ELSE LET kc == [u.keycodes EXCEPT ![FirstSlot(u.keycodes, key)] = 0]
         IN [u EXCEPT !.keycodes = kc,
                      !.fifo_keyboard = queue_try_add(@, kc, FIFO_KEYBOARD_LEN)]

\* move_mouse queueing the mask it had instead of the mask it was given.
\* A call of move_mouse as the callers compile it: usb.h declares the four
\* deltas int8_t, so each argument is converted to int8_t at the call and
\* the definition in usb.c (int16_t parameters) receives that value.
move_mouse_call(u, buttons, x, y, vertical, horizontal) ==
    [buttons |-> buttons, x |-> ToInt8(x), y |-> ToInt8(y),
     vertical |-> ToInt8(vertical), horizontal |-> ToInt8(horizontal)]

move_mouse_stale(u, buttons, x, y, vertical, horizontal) ==
    IF ~u.usb_mounted THEN u
    ELSE [u EXCEPT
            !.fifo_mouse_btn =
                IF buttons # u.mouse_acc.buttons
                THEN queue_try_add(@, u.mouse_acc.buttons, FIFO_MOUSE_BTN_LEN)
                ELSE @,
            !.mouse_acc =
                [@ EXCEPT !.buttons = buttons,
                          !.dx = @ + x, !.dy = @ + y,
                          !.vertical = @ + vertical,
                          !.horizontal = @ + horizontal]]

move_mouse(u, buttons, x, y, vertical, horizontal) ==
    IF ~u.usb_mounted THEN u
    ELSE [u EXCEPT
            !.fifo_mouse_btn =
                IF buttons # u.mouse_acc.buttons
                THEN queue_try_add(@, buttons, FIFO_MOUSE_BTN_LEN) ELSE @,
            !.mouse_acc =
                [@ EXCEPT !.buttons = buttons,
                          !.dx = @ + x, !.dy = @ + y,
                          !.vertical = @ + vertical,
                          !.horizontal = @ + horizontal]]

press_consumer(u, code) ==
    IF ~u.usb_mounted THEN u
    ELSE [u EXCEPT !.fifo_consumer = queue_try_add(@, code, FIFO_CONSUMER_LEN)]

release_consumer(u) ==
    IF ~u.usb_mounted THEN u
    ELSE [u EXCEPT !.fifo_consumer = queue_try_add(@, 0, FIFO_CONSUMER_LEN)]

press_system(u, code) ==
    IF ~u.usb_mounted THEN u
    ELSE [u EXCEPT !.fifo_system =
            queue_try_add(@, ToU8(code - SYSTEM_USAGE_BASE), FIFO_SYSTEM_LEN)]

release_system(u) ==
    IF ~u.usb_mounted THEN u
    ELSE [u EXCEPT !.fifo_system = queue_try_add(@, 0, FIFO_SYSTEM_LEN)]

\* clamp8 without its upper limit.
clamp8_lower_only(v32) ==
    LET v == ToInt16(v32)
    IN IF v < -CLAMP_MAX THEN -CLAMP_MAX ELSE v

\* clamp8 takes an int16_t: the 32-bit accumulator is converted on the call.
clamp8(v32) ==
    LET v == ToInt16(v32)
    IN IF v > CLAMP_MAX THEN CLAMP_MAX
       ELSE IF v < -CLAMP_MAX THEN -CLAMP_MAX ELSE v

(***************************************************************************)
(* Reports                                                                 *)
(***************************************************************************)
NoReport ==
    [id |-> "NONE", keys |-> ZeroKeys, buttons |-> 0,
     dx |-> 0, dy |-> 0, vertical |-> 0, horizontal |-> 0, code |-> 0]

KeyboardReport(kc) == [NoReport EXCEPT !.id = "KEYBOARD", !.keys = kc]

MouseReport(b, cx, cy, cv, ch) ==
    [NoReport EXCEPT !.id = "MOUSE", !.buttons = b, !.dx = cx, !.dy = cy,
                     !.vertical = cv, !.horizontal = ch]

ConsumerReport(c) == [NoReport EXCEPT !.id = "CONSUMER_CONTROL", !.code = c]

SystemReport(c) == [NoReport EXCEPT !.id = "SYSTEM_CONTROL", !.code = c]

\* send_events(report_id): the state after the call and the report handed to
\* the endpoint (NoReport when the class has nothing to send).
send_events(u, report_id) ==
    IF report_id = "KEYBOARD" /\ ~queue_is_empty(u.fifo_keyboard)
    THEN [usb |-> [u EXCEPT !.fifo_keyboard = Tail(@)],
          report |-> KeyboardReport(Head(u.fifo_keyboard))]
    ELSE IF report_id = "MOUSE" /\ mouse_has_pending(u)
    THEN LET cx == clamp8(u.mouse_acc.dx)
             cy == clamp8(u.mouse_acc.dy)
             cv == clamp8(u.mouse_acc.vertical)
             ch == clamp8(u.mouse_acc.horizontal)
             buttons == IF ~queue_is_empty(u.fifo_mouse_btn)
                        THEN Head(u.fifo_mouse_btn) ELSE u.mouse_acc.buttons
         IN [usb |-> [u EXCEPT
                        !.fifo_mouse_btn =
                            IF ~queue_is_empty(@) THEN Tail(@) ELSE @,
                        !.mouse_acc =
                            [@ EXCEPT !.dx = @ - cx, !.dy = @ - cy,
                                      !.vertical = @ - cv,
                                      !.horizontal = @ - ch,
                                      !.last_sent_buttons = buttons]],
             report |-> MouseReport(buttons, cx, cy, cv, ch)]
    ELSE IF report_id = "CONSUMER_CONTROL" /\ ~queue_is_empty(u.fifo_consumer)
    THEN [usb |-> [u EXCEPT !.fifo_consumer = Tail(@)],
          report |-> ConsumerReport(Head(u.fifo_consumer))]
    ELSE IF report_id = "SYSTEM_CONTROL" /\ ~queue_is_empty(u.fifo_system)
    THEN [usb |-> [u EXCEPT !.fifo_system = Tail(@)],
          report |-> SystemReport(Head(u.fifo_system))]
    ELSE [usb |-> u, report |-> NoReport]

AnyPending(u) ==
    \/ ~queue_is_empty(u.fifo_keyboard)
    \/ mouse_has_pending(u)
    \/ ~queue_is_empty(u.fifo_consumer)
    \/ ~queue_is_empty(u.fifo_system)

\* tud_hid_ready(): mounted, not suspended, endpoint not busy.
tud_hid_ready(u, e) == u.usb_mounted /\ ~u.usb_suspended /\ e = "NONE"

\* hid_task's choice with the mouse looked at first.
TaskClass_mouse_first(u) ==
    IF mouse_has_pending(u) THEN "MOUSE"
    ELSE IF ~queue_is_empty(u.fifo_keyboard) THEN "KEYBOARD"
    ELSE IF ~queue_is_empty(u.fifo_consumer) THEN "CONSUMER_CONTROL"
    ELSE IF ~queue_is_empty(u.fifo_system) THEN "SYSTEM_CONTROL"
    ELSE "NONE"

\* The class hid_task serves on this tick.
TaskClass(u) ==
    IF ~queue_is_empty(u.fifo_keyboard) THEN "KEYBOARD"
    ELSE IF ~queue_is_empty(u.fifo_consumer) THEN "CONSUMER_CONTROL"
    ELSE IF ~queue_is_empty(u.fifo_system) THEN "SYSTEM_CONTROL"
    ELSE IF mouse_has_pending(u) THEN "MOUSE"
    ELSE "NONE"

\* hid_task that calls tud_remote_wakeup whether or not the host granted it.
hid_task_wake_ungranted(u, e) ==
    IF ~u.usb_mounted
    THEN [usb |-> u, report |-> NoReport, wakeup |-> FALSE]
    ELSE IF u.usb_suspended /\ AnyPending(u)
    THEN [usb |-> u, report |-> NoReport, wakeup |-> TRUE]
    ELSE IF ~tud_hid_ready(u, e)
    THEN [usb |-> u, report |-> NoReport, wakeup |-> FALSE]
    ELSE [usb |-> send_events(u, TaskClass(u)).usb,
          report |-> send_events(u, TaskClass(u)).report,
          wakeup |-> FALSE]

\* hid_task once its 10 ms interval has elapsed: [usb, report, wakeup].
hid_task(u, e) ==
    IF ~u.usb_mounted
    THEN [usb |-> u, report |-> NoReport, wakeup |-> FALSE]
    ELSE IF u.usb_suspended /\ AnyPending(u)
    THEN [usb |-> u, report |-> NoReport, wakeup |-> u.remote_wakeup_enabled]
    ELSE IF ~tud_hid_ready(u, e)
    THEN [usb |-> u, report |-> NoReport, wakeup |-> FALSE]
    ELSE [usb |-> send_events(u, TaskClass(u)).usb,
          report |-> send_events(u, TaskClass(u)).report,
          wakeup |-> FALSE]

(***************************************************************************)
(* The host's view                                                         *)
(***************************************************************************)
HostInit ==
    [kbd |-> [sent |-> FALSE, keys |-> ZeroKeys],
     mouse |-> [sent |-> FALSE, buttons |-> 0, dx |-> 0, dy |-> 0,
                vertical |-> 0, horizontal |-> 0],
     consumer |-> [sent |-> FALSE, code |-> 0],
     system |-> [sent |-> FALSE, code |-> 0]]

Receive(h, r) ==
    IF r.id = "KEYBOARD"
    THEN [h EXCEPT !.kbd = [sent |-> TRUE, keys |-> r.keys]]
    ELSE IF r.id = "MOUSE"
    THEN [h EXCEPT !.mouse = [sent |-> TRUE, buttons |-> r.buttons,
                              dx |-> r.dx, dy |-> r.dy,
                              vertical |-> r.vertical,
                              horizontal |-> r.horizontal]]
    ELSE IF r.id = "CONSUMER_CONTROL"
    THEN [h EXCEPT !.consumer = [sent |-> TRUE, code |-> r.code]]
    ELSE IF r.id = "SYSTEM_CONTROL"
    THEN [h EXCEPT !.system = [sent |-> TRUE, code |-> r.code]]
    ELSE h

(***************************************************************************)
(* HTTP connection pool (httpd_server.c)                                   *)
(***************************************************************************)
ConnIds == 1..HTTP_MAX_CONNECTIONS

\* A slot after memset(0): CONN_RECV_HEADERS is the first enumerator.
ZeroConn ==
    [in_use |-> FALSE, pcb |-> FALSE, state |-> "RECV_HEADERS",
     ws_mouse_buttons |-> 0,
     poll_ticks |-> 0, headers_len |-> 0, recv_len |-> 0,
     content_length |-> 0,
     ws_recv_buf |-> <<>>]      \* its first ws_recv_len bytes

HttpdInit ==
    [connections |-> [c \in ConnIds |-> ZeroConn],
     ws_active_conn |-> 0,             \* 0 is NULL, else the slot pointed to
     current_mouse_buttons |-> 0]

\* The slot conn_alloc returns, 0 for NULL.
conn_alloc(h) ==
    IF \E c \in ConnIds : ~h.connections[c].in_use
    THEN CHOOSE c \in ConnIds :
            /\ ~h.connections[c].in_use
            /\ \A d \in ConnIds : d < c => h.connections[d].in_use
    ELSE 0

conn_close(h, c) ==
    IF c = 0 THEN h
    ELSE [h EXCEPT !.connections[c].pcb = FALSE,
                   !.connections[c].in_use = FALSE]

http_accept(h) ==
    IF conn_alloc(h) = 0 THEN h
    ELSE [h EXCEPT !.connections[conn_alloc(h)] =
                [ZeroConn EXCEPT !.in_use = TRUE, !.pcb = TRUE,
                                 !.state = "RECV_HEADERS"]]

\* http_send_json / http_send_error with a body that fits the send buffer.
http_send_json(h, c) == [h EXCEPT !.connections[c].state = "SENDING_RESPONSE"]

http_sent(h, c) ==
    IF h.connections[c].state = "SENDING_RESPONSE" THEN conn_close(h, c) ELSE h

(***************************************************************************)
(* Framed channel (httpd_websocket.c)                                      *)
(***************************************************************************)
RECURSIVE BitAnd(_, _)
BitAnd(a, b) ==
    IF a = 0 \/ b = 0 THEN 0
    ELSE (a % 2) * (b % 2) + 2 * BitAnd(a \div 2, b \div 2)

BitOr(a, b) == a + b - BitAnd(a, b)

BitClear(a, b) == a - BitAnd(a, b)

\* for (i = 0; i < 6; i++) if (keycodes[i] != 0) depress_key(keycodes[i]);
RECURSIVE depress_held(_, _)
depress_held(u, i) ==
    IF i > KEY_SLOTS THEN u
    ELSE depress_held(IF u.keycodes[i] # 0 THEN depress_key(u, u.keycodes[i])
                      ELSE u, i + 1)

websocket_client_connected(h) ==
    h.ws_active_conn # 0 /\ h.connections[h.ws_active_conn].state = "WEBSOCKET"

websocket_release_all(u, h) ==
    IF h.ws_active_conn = 0 THEN [usb |-> u, httpd |-> h]
    ELSE [usb |-> move_mouse(depress_held(u, 1), 0, 0, 0, 0, 0),
          httpd |-> [h EXCEPT
                      !.connections[h.ws_active_conn].ws_mouse_buttons = 0]]

\* What a handler writes, in order: <<what, slot, status code>>.
WroteClose(h, c, code) ==
    IF h.connections[c].pcb THEN << <<"CLOSE_FRAME", c, code>> >> ELSE <<>>

WroteTcpClose(h, c) ==
    IF h.connections[c].pcb THEN << <<"TCP_CLOSE", c, 0>> >> ELSE <<>>

\* httpd_websocket_upgrade without the takeover of the previous session.
httpd_websocket_upgrade_keep(u, h, c, handshake_ok) ==
    IF ~handshake_ok
    THEN [usb |-> u, httpd |-> h, log |-> <<>>, ok |-> FALSE]
    ELSE [usb |-> u,
          httpd |-> [h EXCEPT !.connections[c].state = "WEBSOCKET",
                              !.connections[c].ws_recv_buf = <<>>,
                              !.connections[c].ws_mouse_buttons = 0,
                              !.ws_active_conn = c],
          log |-> << <<"HANDSHAKE", c, 101>> >>,
          ok |-> TRUE]

\* httpd_websocket_upgrade: [usb, httpd, log, ok].  handshake_ok is whether
\* the accept key was computed and the 101 response written.
httpd_websocket_upgrade(u, h, c, handshake_ok) ==
    LET inc == h.ws_active_conn
        takeover == inc # 0 /\ inc # c
        rel == websocket_release_all(u, h)
        u1 == IF takeover THEN rel.usb ELSE u
        h1 == IF takeover
              THEN [conn_close(rel.httpd, inc) EXCEPT !.ws_active_conn = 0]
              ELSE h
        log1 == IF takeover
                THEN (IF h.connections[inc].state = "WEBSOCKET"
                      THEN WroteClose(h, inc, WS_CLOSE_TAKEOVER) ELSE <<>>)
                     \o << <<"RELEASE_ALL", inc, 0>> >>
                     \o WroteTcpClose(h, inc)
                ELSE <<>>
    IN IF ~handshake_ok
       THEN [usb |-> u1, httpd |-> h1, log |-> log1, ok |-> FALSE]
       ELSE [usb |-> u1,
             httpd |-> [h1 EXCEPT !.connections[c].state = "WEBSOCKET",
                                  !.connections[c].ws_recv_buf = <<>>,
                                  !.connections[c].ws_mouse_buttons = 0,
                                  !.ws_active_conn = c],
             log |-> log1 \o << <<"HANDSHAKE", c, 101>> >>,
             ok |-> TRUE]

httpd_websocket_closed(u, h, c) ==
    IF h.ws_active_conn = c
    THEN [usb |-> websocket_release_all(u, h).usb,
          httpd |-> [websocket_release_all(u, h).httpd
                        EXCEPT !.ws_active_conn = 0]]
    ELSE [usb |-> u, httpd |-> h]

ws_close_connection(u, h, c) ==
    [usb |-> httpd_websocket_closed(u, h, c).usb,
     httpd |-> conn_close(httpd_websocket_closed(u, h, c).httpd, c)]

\* process_hid_command on a decoded payload [type, arg, down].
process_hid_command(u, h, c, cmd) ==
    IF cmd.type = "KEY"
    THEN [usb |-> IF cmd.down THEN press_key(u, cmd.arg)
                  ELSE depress_key(u, cmd.arg),
          httpd |-> h]
    ELSE IF cmd.type = "MOUSE_BUTTON"
    THEN LET b == IF cmd.down
                  THEN BitOr(h.connections[c].ws_mouse_buttons, cmd.arg)
                  ELSE BitClear(h.connections[c].ws_mouse_buttons, cmd.arg)
         IN [usb |-> move_mouse(u, b, 0, 0, 0, 0),
             httpd |-> [h EXCEPT !.connections[c].ws_mouse_buttons = b]]
    ELSE IF cmd.type = "CONSUMER"
    THEN [usb |-> IF cmd.down THEN press_consumer(u, cmd.arg)
                  ELSE release_consumer(u),
          httpd |-> h]
    ELSE IF cmd.type = "SYSTEM"
    THEN [usb |-> IF cmd.down THEN press_system(u, cmd.arg)
                  ELSE release_system(u),
          httpd |-> h]
    ELSE IF cmd.type = "MOUSE_MOVE"
    THEN LET a == move_mouse_call(u, h.connections[c].ws_mouse_buttons,
                                  cmd.arg[1], cmd.arg[2], 0, 0)
         IN [usb |-> move_mouse(u, a.buttons, a.x, a.y, a.vertical,
                                a.horizontal),
             httpd |-> h]
    ELSE IF cmd.type = "SCROLL"
    THEN LET a == move_mouse_call(u, h.connections[c].ws_mouse_buttons,
                                  0, 0, cmd.arg[2], cmd.arg[1])
         IN [usb |-> move_mouse(u, a.buttons, a.x, a.y, a.vertical,
                                a.horizontal),
             httpd |-> h]
    ELSE IF cmd.type = "RELEASE_ALL"
    THEN websocket_release_all(u, h)
    ELSE [usb |-> u, httpd |-> h]

\* process_websocket_frame on one complete frame [opcode, cmd].
process_websocket_frame(u, h, c, frame) ==
    IF frame.opcode = "BINARY"
    THEN [usb |-> process_hid_command(u, h, c, frame.cmd).usb,
          httpd |-> process_hid_command(u, h, c, frame.cmd).httpd,
          log |-> <<>>]
    ELSE IF frame.opcode = "CLOSE"
    THEN [usb |-> ws_close_connection(u, h, c).usb,
          httpd |-> ws_close_connection(u, h, c).httpd,
          log |-> WroteClose(h, c, 0) \o WroteTcpClose(h, c)]
    ELSE [usb |-> u, httpd |-> h, log |-> <<>>]

\* http_recv with p == NULL: the peer closed the TCP connection.
http_recv_closed(h, c) == conn_close(h, c)

http_err(u, h, c) ==
    LET r == IF h.connections[c].state = "WEBSOCKET"
             THEN httpd_websocket_closed(u, h, c)
             ELSE [usb |-> u, httpd |-> h]
    IN [usb |-> r.usb,
        httpd |-> [r.httpd EXCEPT !.connections[c].pcb = FALSE,
                                  !.connections[c].in_use = FALSE]]

handle_api_hid_release(u, h, c) ==
    [usb |-> move_mouse(depress_held(u, 1), 0, 0, 0, 0, 0),
     httpd |-> http_send_json([h EXCEPT !.current_mouse_buttons = 0], c),
     log |-> << <<"RESPONSE", c, 200>> >>]

\* dispatch_request for a request [websocket_upgrade, authenticated,
\* handshake_ok, uri]; any route but /api/hid/release answers and is done.
dispatch_request(u, h, c, req) ==
    IF ~req.authenticated
    THEN [usb |-> u, httpd |-> http_send_json(h, c),
          log |-> << <<"RESPONSE", c, 401>> >>]
    ELSE IF req.uri = "/api/hid/release"
    THEN handle_api_hid_release(u, h, c)
    ELSE [usb |-> u, httpd |-> http_send_json(h, c),
          log |-> << <<"RESPONSE", c, 200>> >>]

parse_request(u, h, c, req) ==
    IF ~req.websocket_upgrade THEN dispatch_request(u, h, c, req)
    ELSE IF ~req.authenticated
    THEN [usb |-> u, httpd |-> http_send_json(h, c),
          log |-> << <<"RESPONSE", c, 401>> >>]
    ELSE LET r == httpd_websocket_upgrade(u, h, c, req.handshake_ok)
         IN IF r.ok THEN [usb |-> r.usb, httpd |-> r.httpd, log |-> r.log]
            ELSE [usb |-> r.usb, httpd |-> http_send_json(r.httpd, c),
                  log |-> r.log \o << <<"RESPONSE", c, 400>> >>]

\* (uint16_t) of a non-negative int.
ToU16(x) == x % 65536

\* The pbuf loop of http_recv: the bytes that still fit are copied, the
\* rest of the segment is dropped; the idle counter restarts.
http_recv_copy(h, c, len) ==
    [h EXCEPT !.connections[c].poll_ticks = 0,
              !.connections[c].recv_len =
                  IF @ + len > HTTP_RECV_BUF_SIZE - 1
                  THEN HTTP_RECV_BUF_SIZE - 1 ELSE @ + len]

\* http_recv with a segment: the idle counter restarts before the segment is
\* looked at.
http_recv_reset(h, c) == [h EXCEPT !.connections[c].poll_ticks = 0]

\* parse_request of a POST whose headers end at headers_len and carry
\* Content-Length: cl.
parse_request_post(u, h, c, req, headers_len, cl) ==
    LET h1 == [h EXCEPT !.connections[c].headers_len = headers_len,
                        !.connections[c].content_length = ToU16(cl)]
        conn == h1.connections[c]
    IN IF conn.content_length > 0
          /\ conn.recv_len - headers_len < conn.content_length
       THEN [usb |-> u,
             httpd |-> [h1 EXCEPT !.connections[c].state = "RECV_BODY"],
             log |-> <<>>]
       ELSE dispatch_request(u, h1, c, req)

\* http_recv on a connection in CONN_RECV_BODY, after the copy.
http_recv_body(u, h, c, req) ==
    IF h.connections[c].recv_len - h.connections[c].headers_len
           >= h.connections[c].content_length
    THEN dispatch_request(u, h, c, req)
    ELSE [usb |-> u, httpd |-> h, log |-> <<>>]

\* http_poll that counts on a framed channel as on any other connection.
http_poll_framed_too(h, c) ==
    IF h.connections[c].poll_ticks + 1 >= HTTP_TIMEOUT_TICKS
    THEN conn_close([h EXCEPT !.connections[c].poll_ticks = @ + 1], c)
    ELSE [h EXCEPT !.connections[c].poll_ticks = @ + 1]

http_poll(h, c) ==
    IF h.connections[c].state = "WEBSOCKET" THEN h
    ELSE IF h.connections[c].poll_ticks + 1 >= HTTP_TIMEOUT_TICKS
    THEN conn_close([h EXCEPT !.connections[c].poll_ticks = @ + 1], c)
    ELSE [h EXCEPT !.connections[c].poll_ticks = @ + 1]

(***************************************************************************)
(* Pub/sub client (mqtt.c)                                                 *)
(***************************************************************************)
MqttInit ==
    [mqtt_state |-> "DISABLED", client |-> FALSE,
     reconnect_delay_ms |-> MQTT_RECONNECT_MIN_MS, backoff_start_ms |-> 0,
     mqtt_mouse_buttons |-> 0]

mqtt_set_state(m, new_state) == [m EXCEPT !.mqtt_state = new_state]

\* The HID side of mqtt_release_all_keys.
mqtt_release_all_keys(u) ==
    release_consumer(move_mouse(depress_held(u, 1), 0, 0, 0, 0, 0))

\* mqtt_stop: [mqtt, usb].
mqtt_stop(m, u) ==
    [mqtt |-> [m EXCEPT !.mqtt_mouse_buttons = 0, !.client = FALSE,
                        !.mqtt_state = "DISABLED",
                        !.reconnect_delay_ms = MQTT_RECONNECT_MIN_MS],
     usb |-> mqtt_release_all_keys(u)]

mqtt_reconnect(m) ==
    [m EXCEPT !.client = FALSE,
              !.reconnect_delay_ms = MQTT_RECONNECT_MIN_MS,
              !.mqtt_state = "IDLE"]

mqtt_enter_backoff(m, now) ==
    [m EXCEPT !.backoff_start_ms = now,
              !.mqtt_state = "BACKOFF",
              !.reconnect_delay_ms =
                  IF @ * MQTT_RECONNECT_MULT > MQTT_RECONNECT_MAX_MS
                  THEN MQTT_RECONNECT_MAX_MS ELSE @ * MQTT_RECONNECT_MULT]

\* ipaddr: the lookup gave an address; alloc_ok: mqtt_client_new gave a
\* client; connect_ok: mqtt_client_connect returned ERR_OK.
mqtt_dns_callback(m, ipaddr, alloc_ok, connect_ok) ==
    IF ~ipaddr THEN mqtt_set_state(m, "ERROR")
    ELSE IF ~alloc_ok
    THEN mqtt_set_state([m EXCEPT !.client = FALSE], "ERROR")
    ELSE IF connect_ok
    THEN mqtt_set_state([m EXCEPT !.client = TRUE], "CONNECTING")
    ELSE mqtt_set_state([m EXCEPT !.client = FALSE], "ERROR")

\* in.configured: a broker and a topic are set; in.dns: what
\* dns_gethostbyname returned.
mqtt_start_connection(m, in) ==
    IF ~in.configured THEN mqtt_set_state(m, "ERROR")
    ELSE IF in.dns = "ERR_OK"
    THEN mqtt_dns_callback(mqtt_set_state(m, "DNS_RESOLVING"), TRUE,
                           in.alloc_ok, in.connect_ok)
    ELSE IF in.dns = "ERR_INPROGRESS" THEN mqtt_set_state(m, "DNS_RESOLVING")
    ELSE mqtt_set_state(m, "ERROR")

\* mqtt_task at time now: [mqtt, usb].
mqtt_task(m, u, now, in) ==
    IF ~in.enabled
    THEN (IF m.mqtt_state # "DISABLED" THEN mqtt_stop(m, u)
          ELSE [mqtt |-> m, usb |-> u])
    ELSE IF ~in.wifi_up
    THEN LET r == IF m.mqtt_state \notin {"IDLE", "DISABLED"}
                  THEN mqtt_stop(m, u) ELSE [mqtt |-> m, usb |-> u]
         IN [r EXCEPT !.mqtt.mqtt_state = "IDLE"]
    ELSE [usb |-> u,
          mqtt |->
            IF m.mqtt_state \in {"DISABLED", "IDLE"}
            THEN mqtt_start_connection([m EXCEPT !.mqtt_state = "IDLE"], in)
            ELSE IF m.mqtt_state = "ERROR" THEN mqtt_enter_backoff(m, now)
            ELSE IF m.mqtt_state = "BACKOFF"
            THEN (IF now - m.backoff_start_ms >= m.reconnect_delay_ms
                  THEN [m EXCEPT !.mqtt_state = "IDLE"] ELSE m)
            ELSE m]

\* The values mqtt_task assigns to mqtt_state, in the order of the
\* assignments.
mqtt_task_states(m, u, now, in) ==
    LET last == mqtt_task(m, u, now, in).mqtt.mqtt_state
    IN IF ~in.enabled
       THEN (IF m.mqtt_state # "DISABLED" THEN <<"DISABLED", last>> ELSE <<>>)
       ELSE IF ~in.wifi_up
       THEN (IF m.mqtt_state \notin {"IDLE", "DISABLED"}
             THEN <<"DISABLED", last>> ELSE <<last>>)
       ELSE IF m.mqtt_state \in {"DISABLED", "IDLE"}
       THEN (IF m.mqtt_state = "DISABLED" THEN <<"IDLE">> ELSE <<>>)
            \o (IF in.configured THEN <<"DNS_RESOLVING">> ELSE <<>>)
            \o (IF in.configured /\ in.dns = "ERR_INPROGRESS"
                THEN <<>> ELSE <<last>>)
       ELSE IF m.mqtt_state \in {"ERROR", "BACKOFF"} THEN <<last>>
       ELSE <<>>

\* mqtt_connection_callback: [mqtt, usb].  subscribe_ok: mqtt_subscribe
\* returned ERR_OK.
mqtt_connection_callback(m, u, status, subscribe_ok) ==
    IF status = "ACCEPTED"
    THEN [usb |-> u,
          mqtt |-> mqtt_set_state(
                     [m EXCEPT !.reconnect_delay_ms = MQTT_RECONNECT_MIN_MS],
                     IF subscribe_ok THEN "SUBSCRIBING" ELSE "ERROR")]
    ELSE IF status = "DISCONNECTED"
    THEN [usb |-> mqtt_release_all_keys(u),
          mqtt |-> mqtt_set_state(
                     [m EXCEPT !.mqtt_mouse_buttons = 0, !.client = FALSE],
                     "ERROR")]
    ELSE [usb |-> u,
          mqtt |-> mqtt_set_state([m EXCEPT !.client = FALSE], "ERROR")]

\* snprintf(buf, size, "%s%s", a, b): what fits in size - 1 characters.
Snprintf(size, a, b) ==
    IF Len(a \o b) <= size - 1 THEN a \o b ELSE SubSeq(a \o b, 1, size - 1)

\* "/#" and "/status".
WildcardSuffix == <<47, 35>>

MQTT_STATUS_SUFFIX == <<47, 115, 116, 97, 116, 117, 115>>

\* The topic buffers and the traffic of the present connection: the topic
\* of the SUBSCRIBE sent, the topic acknowledged, the message published.
NoTraffic == [requested |-> <<>>, acked |-> <<>>, sent |-> <<>>]

\* topic: the configured topic; base: the topic the present connection was
\* started with (an observation); lookup: the resolver holds a request of
\* dns_gethostbyname whose callback has not run; path: the values mqtt_state
\* took in the last call of mqtt_task, the value before the call first;
\* flip: changes with every call recorded in path.
BrokerInit ==
    [topic |-> <<116>>, base |-> <<>>, subscribe_topic_buf |-> <<>>,
     status_topic_buf |-> <<>>, traffic |-> NoTraffic,
     lookup |-> FALSE, path |-> <<>>, flip |-> FALSE]

\* mqtt_start_connection: the topic buffers, from the configured topic.
mqtt_prepare_topics(b) ==
    [b EXCEPT
       !.subscribe_topic_buf =
           Snprintf(MQTT_TOPIC_MAX_LEN + 4, b.topic, WildcardSuffix),
       !.status_topic_buf =
           Snprintf(MQTT_TOPIC_MAX_LEN + 16, b.topic, MQTT_STATUS_SUFFIX)]

\* A status message published without the retain flag.
mqtt_publish_online_unretained(b) ==
    [topic |-> b.status_topic_buf, msg |-> "online", retain |-> FALSE]

\* The mqtt_publish call of mqtt_subscribe_callback.
mqtt_publish_online(b) ==
    [topic |-> b.status_topic_buf, msg |-> "online", retain |-> TRUE]

\* The traffic of a connection ends with the connection.
Carry(b, m1) ==
    IF m1.mqtt_state \in {"SUBSCRIBING", "READY"} THEN b
    ELSE [b EXCEPT !.traffic = NoTraffic]

\* The mqtt_subscribe call of mqtt_connection_callback.
mqtt_subscribe(b) == [b EXCEPT !.traffic.requested = b.subscribe_topic_buf]

\* What mqtt_subscribe_callback exchanges: err_ok is the broker's
\* acknowledgement of the SUBSCRIBE sent, and the status message follows.
mqtt_subscribe_callback_traffic(b, err_ok) ==
    IF ~err_ok THEN [b EXCEPT !.traffic = NoTraffic]
    ELSE [b EXCEPT !.traffic.acked = b.traffic.requested,
                   !.traffic.sent = <<mqtt_publish_online(b)>>]

\* mqtt_handle_key for a keyboard key: a tap without "down", else a press
\* or a release.
mqtt_handle_key(u, code, has_down, is_down) ==
    IF ~has_down THEN depress_key(press_key(u, code), code)
    ELSE IF is_down THEN press_key(u, code)
    ELSE depress_key(u, code)

mqtt_subscribe_callback(m, err_ok) ==
    mqtt_set_state(m, IF err_ok THEN "READY" ELSE "ERROR")

(***************************************************************************)
(* Settings store (settings.c)                                             *)
(***************************************************************************)
\* flash_config_t, field by field: <<name, size in bytes>>.  Every field
\* falls on its natural alignment, so the struct has no padding.
Layout ==
    << <<"magic", 4>>, <<"settings_flags", 4>>, <<"force_ap_mode", 1>>,
       <<"has_credentials", 1>>, <<"reserved_flags", 2>>,
       <<"wifi_ssid", 33>>, <<"wifi_password", 65>>, <<"hostname", 33>>,
       <<"mqtt_enabled", 1>>, <<"mqtt_port", 2>>, <<"mqtt_broker", 64>>,
       <<"mqtt_topic", 64>>, <<"mqtt_username", 32>>,
       <<"mqtt_password", 64>>, <<"mqtt_client_id", 32>>,
       <<"syslog_server", 64>>, <<"syslog_port", 2>>,
       <<"reserved_settings", 16>>, <<"checksum", 4>> >>

FieldNames == {Layout[k][1] : k \in 1..Len(Layout)}

FieldIndex == [name \in FieldNames |->
                 CHOOSE k \in 1..Len(Layout) : Layout[k][1] = name]

SizeOf(name) == Layout[FieldIndex[name]][2]

RECURSIVE SizesBefore(_)
SizesBefore(k) == IF k <= 1 THEN 0 ELSE Layout[k - 1][2] + SizesBefore(k - 1)

Offsets == [name \in FieldNames |-> SizesBefore(FieldIndex[name])]

\* offsetof(flash_config_t, name)
OffsetOf(name) == Offsets[name]

\* sizeof(flash_config_t)
RecordLen == SizesBefore(Len(Layout) + 1)

RecordIdx == 1..RecordLen

\* The byte positions (from 1) a field occupies.
Extent(name) == (OffsetOf(name) + 1)..(OffsetOf(name) + SizeOf(name))

\* Little-endian encoding of an unsigned integer in n bytes, and back.
RECURSIVE ToLE(_, _)
ToLE(x, n) == IF n = 0 THEN <<>> ELSE <<x % 256>> \o ToLE(x \div 256, n - 1)

RECURSIVE FromLE(_)
FromLE(bytes) ==
    IF bytes = <<>> THEN 0 ELSE Head(bytes) + 256 * FromLE(Tail(bytes))

BitXor(a, b) == a + b - 2 * BitAnd(a, b)

GetField(cfg, name) ==
    SubSeq(cfg, OffsetOf(name) + 1, OffsetOf(name) + SizeOf(name))

SetField(cfg, name, bytes) ==
    SubSeq(cfg, 1, OffsetOf(name)) \o bytes
        \o SubSeq(cfg, OffsetOf(name) + SizeOf(name) + 1, RecordLen)

\* strncpy(dst, str, n) into a dst of size bytes: str, then NULs up to n;
\* bytes past n keep what `rest` says (the caller's memset or assignment).
Strncpy(str, n, size, rest) ==
    [i \in 1..size |->
        IF i <= n THEN (IF i <= Len(str) THEN str[i] ELSE 0) ELSE rest[i]]

Zeros(n) == [i \in 1..n |-> 0]

Erased == [i \in RecordIdx |-> ERASED_BYTE]

\* for (i = 0; i < offsetof(flash_config_t, checksum); i++) sum += data[i];
\* over bytes lo..hi: by halves while sixteen bytes remain, then eight bytes
\* a step, then byte by byte.
RECURSIVE SumBytes(_, _, _)
SumBytes(cfg, lo, hi) ==
    IF lo > hi THEN 0
    ELSE IF lo + 15 <= hi
    THEN LET half == 8 * (((hi - lo + 1) \div 8) \div 2)
         IN SumBytes(cfg, lo, lo + half - 1) + SumBytes(cfg, lo + half, hi)
    ELSE IF lo + 7 <= hi
    THEN cfg[lo] + cfg[lo + 1] + cfg[lo + 2] + cfg[lo + 3] + cfg[lo + 4]
         + cfg[lo + 5] + cfg[lo + 6] + cfg[lo + 7] + SumBytes(cfg, lo + 8, hi)
    ELSE cfg[lo] + SumBytes(cfg, lo + 1, hi)

\* The checksum as the four bytes the record stores.  The sum of the 484
\* bytes before the checksum is below 2^17, so uint32_t never wraps.
calc_checksum(cfg) ==
    LET sum == ToLE(SumBytes(cfg, 1, OffsetOf("checksum")), 4)
    IN <<BitXor(sum[1], CHECKSUM_XOR[1]), BitXor(sum[2], CHECKSUM_XOR[2]),
         BitXor(sum[3], CHECKSUM_XOR[3]), BitXor(sum[4], CHECKSUM_XOR[4])>>

\* read_config that checks the magic only.
read_config_magic_only(fl) ==
    [ok |-> GetField(fl, "magic") = ToLE(CONFIG_MAGIC, 4), cfg |-> fl]

\* read_config: [ok, cfg].
read_config(fl) ==
    IF GetField(fl, "magic") # ToLE(CONFIG_MAGIC, 4)
    THEN [ok |-> FALSE, cfg |-> fl]
    ELSE [ok |-> GetField(fl, "checksum") = calc_checksum(fl),
          cfg |-> fl]

\* write_config: erase the sector, program the pages holding the record.
write_config(cfg) == cfg

\* write_config losing power after n bytes of the record were programmed.
write_config_cut(cfg, n) ==
    SubSeq(cfg, 1, n) \o SubSeq(Erased, n + 1, RecordLen)

init_fresh_config ==
    SetField(SetField(SetField(Zeros(RecordLen),
        "magic", ToLE(CONFIG_MAGIC, 4)),
        "mqtt_port", ToLE(MQTT_DEFAULT_PORT, 2)),
        "syslog_port", ToLE(SYSLOG_DEFAULT_PORT, 2))

\* if (!read_config(&cfg)) init_fresh_config(&cfg);
\* cur is what read_config gave.
ReadOrFresh(cur) == IF cur.ok THEN cur.cfg ELSE init_fresh_config

Flags(cfg) == FromLE(GetField(cfg, "settings_flags"))

\* cfg.settings_flags = bit;
SetFlag_overwrite(cfg, bit) == SetField(cfg, "settings_flags", ToLE(bit, 4))

\* cfg.settings_flags |= bit;
SetFlag(cfg, bit) ==
    SetField(cfg, "settings_flags", ToLE(BitOr(Flags(cfg), bit), 4))

ClearFlag(cfg, bit) ==
    SetField(cfg, "settings_flags", ToLE(BitClear(Flags(cfg), bit), 4))

\* cfg.checksum = calc_checksum(&cfg);
Sealed(cfg) == SetField(cfg, "checksum", calc_checksum(cfg))

IsAlnum(c) ==
    (c >= 97 /\ c <= 122) \/ (c >= 65 /\ c <= 90) \/ (c >= 48 /\ c <= 57)

validate_hostname(hostname) ==
    /\ Len(hostname) # 0 /\ Len(hostname) <= HOSTNAME_MAX_LEN
    /\ hostname[1] # 45 /\ hostname[Len(hostname)] # 45
    /\ \A i \in 1..Len(hostname) : IsAlnum(hostname[i]) \/ hostname[i] = 45

\* The setters, from what their read_config gave (cur): the record they
\* hand to write_config, or "written" FALSE when they return without
\* writing.
settings_set_force_ap(cur) ==
    [written |-> TRUE,
     cfg |-> Sealed(SetField(ReadOrFresh(cur), "force_ap_mode", <<1>>))]

\* A clear that starts from defaults whatever the sector holds.
settings_clear_force_ap_fresh(cur) ==
    [written |-> TRUE,
     cfg |-> Sealed(SetField(init_fresh_config, "force_ap_mode", <<0>>))]

settings_clear_force_ap(cur) ==
    IF cur.ok /\ GetField(cur.cfg, "force_ap_mode") = <<0>>
    THEN [written |-> FALSE, cfg |-> cur.cfg]
    ELSE [written |-> TRUE,
          cfg |-> Sealed(SetField(ReadOrFresh(cur), "force_ap_mode", <<0>>))]

settings_set_hostname(cur, hostname) ==
    IF ~validate_hostname(hostname) THEN [written |-> FALSE, cfg |-> cur.cfg]
    ELSE [written |-> TRUE,
          cfg |-> Sealed(SetFlag(
                    SetField(ReadOrFresh(cur), "hostname",
                        Strncpy(hostname, HOSTNAME_MAX_LEN,
                                HOSTNAME_MAX_LEN + 1,
                                Zeros(HOSTNAME_MAX_LEN + 1))),
                    SETTINGS_FLAG_HOSTNAME))]

settings_set_mqtt_port(cur, port) ==
    IF port = 0 THEN [written |-> FALSE, cfg |-> cur.cfg]
    ELSE [written |-> TRUE,
          cfg |-> Sealed(SetFlag(
                    SetField(ReadOrFresh(cur), "mqtt_port", ToLE(port, 2)),
                    SETTINGS_FLAG_MQTT_PORT))]

settings_set_mqtt_username(cur, username) ==
    IF Len(username) > MQTT_USERNAME_MAX_LEN
    THEN [written |-> FALSE, cfg |-> cur.cfg]
    ELSE LET cleared == SetField(ReadOrFresh(cur), "mqtt_username",
                                 Zeros(MQTT_USERNAME_MAX_LEN + 1))
         IN [written |-> TRUE,
             cfg |-> Sealed(
                IF Len(username) > 0
                THEN SetFlag(SetField(cleared, "mqtt_username",
                                Strncpy(username, MQTT_USERNAME_MAX_LEN,
                                        MQTT_USERNAME_MAX_LEN + 1,
                                        Zeros(MQTT_USERNAME_MAX_LEN + 1))),
                             SETTINGS_FLAG_MQTT_USER)
                ELSE ClearFlag(cleared, SETTINGS_FLAG_MQTT_USER))]

(***************************************************************************)
(* Credentials and the force-AP flag (settings.c)                          *)
(***************************************************************************)
\* The C string held in a char array.
RECURSIVE CStr(_)
CStr(bytes) ==
    IF bytes = <<>> \/ Head(bytes) = 0 THEN <<>>
    ELSE <<Head(bytes)>> \o CStr(Tail(bytes))

settings_get_force_ap(cur) ==
    cur.ok /\ GetField(cur.cfg, "force_ap_mode") # <<0>>

\* wifi_credentials_get: [ok, ssid, password].
wifi_credentials_get(cur) ==
    IF ~cur.ok \/ GetField(cur.cfg, "has_credentials") = <<0>>
    THEN [ok |-> FALSE, ssid |-> <<>>, password |-> <<>>]
    ELSE [ok |-> TRUE,
          ssid |-> CStr(SubSeq(GetField(cur.cfg, "wifi_ssid"),
                               1, WIFI_SSID_MAX_LEN)),
          password |-> CStr(SubSeq(GetField(cur.cfg, "wifi_password"),
                                   1, WIFI_PASSWORD_MAX_LEN))]

wifi_credentials_set(cur, ssid, password) ==
    IF Len(ssid) = 0 \/ Len(ssid) > WIFI_SSID_MAX_LEN
       \/ Len(password) > WIFI_PASSWORD_MAX_LEN
    THEN [written |-> FALSE, cfg |-> cur.cfg]
    ELSE [written |-> TRUE,
          cfg |-> Sealed(SetField(SetField(SetField(ReadOrFresh(cur),
                    "wifi_ssid",
                    Strncpy(ssid, WIFI_SSID_MAX_LEN, WIFI_SSID_MAX_LEN + 1,
                            Zeros(WIFI_SSID_MAX_LEN + 1))),
                    "wifi_password",
                    Strncpy(password, WIFI_PASSWORD_MAX_LEN,
                            WIFI_PASSWORD_MAX_LEN + 1,
                            Zeros(WIFI_PASSWORD_MAX_LEN + 1))),
                    "has_credentials", <<1>>))]

(***************************************************************************)
(* JSON handlers that write the settings (httpd_handlers.c)                *)
(***************************************************************************)
\* The sector after a setter call.
Stored(fl, r) == IF r.written THEN write_config(r.cfg) ELSE fl

\* handle_api_config_post with the "ssid" and "password" of a well-formed
\* body: [flash, status].
handle_api_config_post(fl, ssid, password) ==
    LET r == wifi_credentials_set(read_config(fl), ssid, password)
    IN IF /\ Len(ssid) > 0 /\ Len(ssid) <= WIFI_SSID_MAX_LEN
          /\ Len(password) <= WIFI_PASSWORD_MAX_LEN
          /\ r.written
       THEN [flash |-> write_config(r.cfg), status |-> 200]
       ELSE [flash |-> fl, status |-> 400]

\* The members of a settings body the model follows; <<>> is a member that
\* is absent.
Bodies ==
    [json : BOOLEAN,
     hostname : { <<>>, <<112, 99, 45, 49>>, <<45, 97>> },
     mqtt_port : { <<>>, <<8883>>, <<0>> },
     mqtt_username : { <<>>, << <<117>> >> }]

\* handle_api_settings_post: [flash, status].  The members are taken in the
\* handler's order, each stored as soon as it has been checked.
handle_api_settings_post(fl, body) ==
    IF ~body.json THEN [flash |-> fl, status |-> 400]
    ELSE IF Len(body.hostname) > HOSTNAME_MAX_LEN
    THEN [flash |-> fl, status |-> 400]
    ELSE IF Len(body.hostname) > 0 /\ ~validate_hostname(body.hostname)
    THEN [flash |-> fl, status |-> 400]
    ELSE
    LET fl1 == IF Len(body.hostname) > 0
               THEN Stored(fl, settings_set_hostname(read_config(fl),
                                                     body.hostname))
               ELSE fl
    IN IF body.mqtt_port # <<>>
          /\ ~(body.mqtt_port[1] > 0 /\ body.mqtt_port[1] <= 65535)
       THEN [flash |-> fl1, status |-> 400]
       ELSE
       LET fl2 == IF body.mqtt_port # <<>>
                  THEN Stored(fl1, settings_set_mqtt_port(read_config(fl1),
                                                          body.mqtt_port[1]))
                  ELSE fl1
       IN IF body.mqtt_username # <<>>
             /\ Len(body.mqtt_username[1]) > MQTT_USERNAME_MAX_LEN
          THEN [flash |-> fl2, status |-> 400]
          ELSE [flash |-> IF body.mqtt_username # <<>>
                          THEN Stored(fl2, settings_set_mqtt_username(
                                        read_config(fl2),
                                        body.mqtt_username[1]))
                          ELSE fl2,
                status |-> 200]

(***************************************************************************)
(* ap_mode.c: its own record layout, and the BOOTSEL button                *)
(***************************************************************************)
\* ap_mode.c's flash_config_t up to its checksum.  The members before
\* reserved_settings are those of settings.c's record, at the same offsets.
ApLayout ==
    << <<"magic", 4>>, <<"settings_flags", 4>>, <<"force_ap_mode", 1>>,
       <<"has_credentials", 1>>, <<"reserved_flags", 2>>,
       <<"wifi_ssid", 33>>, <<"wifi_password", 65>>, <<"hostname", 33>>,
       <<"reserved_settings", 128>> >>

RECURSIVE ApSizesBefore(_)
ApSizesBefore(k) ==
    IF k <= 1 THEN 0 ELSE ApLayout[k - 1][2] + ApSizesBefore(k - 1)

\* offsetof(flash_config_t, checksum): the uint32_t is aligned to 4 bytes.
ApChecksumOffset == ((ApSizesBefore(Len(ApLayout) + 1) + 3) \div 4) * 4

ApRecordLen == ApChecksumOffset + 4

\* The sector after ap_mode.c's write_config: the record, the rest erased.
ApImage(rec) == rec \o SubSeq(Erased, ApRecordLen + 1, RecordLen)

ap_calc_checksum(img) ==
    LET sum == ToLE(SumBytes(img, 1, ApChecksumOffset), 4)
    IN <<BitXor(sum[1], CHECKSUM_XOR[1]), BitXor(sum[2], CHECKSUM_XOR[2]),
         BitXor(sum[3], CHECKSUM_XOR[3]), BitXor(sum[4], CHECKSUM_XOR[4])>>

\* ap_mode.c's read_config: [ok, cfg], cfg being the sector image.
ap_read_config(fl) ==
    IF GetField(fl, "magic") # ToLE(AP_CONFIG_MAGIC, 4)
    THEN [ok |-> FALSE, cfg |-> fl]
    ELSE [ok |-> SubSeq(fl, ApChecksumOffset + 1, ApRecordLen)
                    = ap_calc_checksum(fl),
          cfg |-> fl]

ApSealed(img) ==
    SubSeq(img, 1, ApChecksumOffset) \o ap_calc_checksum(img)
        \o SubSeq(img, ApRecordLen + 1, RecordLen)

\* ap_mode_set_force_flag: the sector it leaves.
ap_mode_set_force_flag(fl) ==
    LET cur == ap_read_config(fl)
        cfg == IF cur.ok THEN cur.cfg
               ELSE SetField(ApImage(Zeros(ApRecordLen)), "magic",
                             ToLE(AP_CONFIG_MAGIC, 4))
    IN ApSealed(SetField(cfg, "force_ap_mode", <<1>>))

\* The statics of main.c and ap_mode.c after a reset.  mode: what main()
\* started ("NONE": main has not run, "HALT": main returned 1).
DevInit ==
    [running |-> FALSE, in_ap_mode |-> FALSE, mode |-> "NONE",
     current_wifi_ssid |-> <<>>, current_wifi_password |-> <<>>,
     bootsel_state |-> "IDLE", bootsel_press_start |-> 0,
     token_valid |-> FALSE,
     udp_bound |-> FALSE,            \* pcb is bound to port 4444
     wifi_up |-> FALSE, prev_result |-> "NONE"]

\* auth.c: a session token exists exactly when a device password is
\* configured.
auth_init(d, has_password) == [d EXCEPT !.token_valid = has_password]

\* The request passes when no token exists, in AP mode, or with the token.
request_is_authenticated_sta_only(d, token_ok) == ~d.token_valid \/ token_ok

\* token_ok: the Authorization header or the query carries the session
\* token.
request_is_authenticated(d, token_ok) ==
    ~d.token_valid \/ d.in_ap_mode \/ token_ok

\* main() up to the main loop: [flash, dev].  radio_ok: ap_mode_start or
\* setup_wifi returned 0.
main(fl, radio_ok) ==
    LET force == settings_get_force_ap(read_config(fl))
        cleared == settings_clear_force_ap(read_config(fl))
        fl1 == IF force /\ cleared.written THEN write_config(cleared.cfg)
               ELSE fl
        creds == wifi_credentials_get(read_config(fl1))
        start_ap_mode == force \/ ~creds.ok
    IN [flash |-> fl1,
        dev |-> [DevInit EXCEPT
                   !.running = radio_ok,
                   !.in_ap_mode = start_ap_mode,
                   !.mode = IF ~radio_ok THEN "HALT"
                            ELSE IF start_ap_mode THEN "AP" ELSE "STA",
                   !.current_wifi_ssid =
                       IF ~force /\ creds.ok THEN creds.ssid ELSE <<>>,
                   !.current_wifi_password =
                       IF ~force /\ creds.ok THEN creds.password ELSE <<>>]]

\* setup_server: [dev, mqtt].  The UDP listener is bound and mqtt_init puts
\* the client back to its initial values.
setup_server(d, m) ==
    [dev |-> [d EXCEPT !.udp_bound = TRUE],
     mqtt |-> [m EXCEPT !.mqtt_state = "DISABLED", !.client = FALSE,
                        !.reconnect_delay_ms = MQTT_RECONNECT_MIN_MS]]

\* wifi_task with the link status as read: [dev, mqtt].
wifi_task(d, m, result) ==
    LET r == IF result = "UP" /\ d.prev_result # result
             THEN setup_server(d, m) ELSE [dev |-> d, mqtt |-> m]
    IN [r EXCEPT !.dev.wifi_up = (result = "UP"),
                 !.dev.prev_result = result]

\* bootsel_task with the button as read and the clock at now:
\* [dev, flash, reboot].
bootsel_task(d, fl, pressed, now) ==
    IF d.bootsel_state = "IDLE"
    THEN [dev |-> IF pressed
                  THEN [d EXCEPT !.bootsel_state = "PRESSED",
                                 !.bootsel_press_start = now]
                  ELSE d,
          flash |-> fl, reboot |-> FALSE]
    ELSE IF d.bootsel_state = "PRESSED"
    THEN (IF ~pressed
          THEN [dev |-> [d EXCEPT !.bootsel_state = "IDLE"],
                flash |-> fl, reboot |-> FALSE]
          ELSE IF now - d.bootsel_press_start >= BOOTSEL_HOLD_TIME_MS
          THEN [dev |-> [d EXCEPT !.bootsel_state = "TRIGGERED",
                                  !.running = FALSE],
                flash |-> ap_mode_set_force_flag(fl), reboot |-> TRUE]
          ELSE [dev |-> d, flash |-> fl, reboot |-> FALSE])
    ELSE [dev |-> d, flash |-> fl, reboot |-> FALSE]

(***************************************************************************)
(* Observations for the properties                                         *)
(***************************************************************************)
ZeroOwed == [dx |-> 0, dy |-> 0, vertical |-> 0, horizontal |-> 0]

\* One movement call on an idle device: the dx its caller asked for, the
\* mouse reports since, their dx summed, and whether one was out of range.
NoSingle ==
    [active |-> FALSE, asked |-> 0, reports |-> 0, sum |-> 0, wide |-> FALSE]

\* Movement asked for after the latest button transition: dx of it still in
\* the accumulator, and of the last mouse report how much of it the report
\* carried, whether the report took its mask from the transition queue, and
\* whether that mask differed from the mask current at the time.
NoLate ==
    [on |-> FALSE, dx |-> 0, carried |-> 0, queued |-> FALSE, stale |-> FALSE]

\* What the last call of hid_task found and did, kept for a tick that found
\* the host suspended: whether a class had pending work, whether the host had
\* granted remote wakeup, whether a report went out and whether
\* tud_remote_wakeup was called.
NoTick ==
    [suspended |-> FALSE, pending |-> FALSE, granted |-> FALSE,
     emitted |-> FALSE, wakeup |-> FALSE]

HistTick(u, r) ==
    IF ~u.usb_suspended THEN NoTick
    ELSE [suspended |-> TRUE,
          pending |-> \/ u.fifo_keyboard # <<>> \/ u.fifo_consumer # <<>>
                      \/ u.fifo_system # <<>> \/ mouse_has_pending(u),
          granted |-> u.remote_wakeup_enabled,
          emitted |-> r.report.id # "NONE",
          wakeup |-> r.wakeup]

HistInit ==
    [key_ref |-> {},            \* keys whose presses exceed their releases
     owed |-> ZeroOwed,         \* requested minus emitted, per component
     btn_unreported |-> {},     \* masks observed, no report carrying them yet
     btn_accepted |-> <<>>,     \* transitions taken by the 8-entry queue
     btn_in_order |-> TRUE,     \* accepted transitions came out in order
     mouse_reports |-> 0,       \* mouse reports emitted since mount (capped)
     moves |-> 0,               \* movement calls since mount
     single |-> NoSingle,       \* the one movement followed to its end
     late |-> NoLate,           \* movement younger than the last transition
     dropped |-> 0,             \* enqueue attempts a full queue refused
     tick |-> NoTick]           \* the last tick, if the host was suspended
                                \* (HidTick)

\* The held-key set the press/release counts describe: a repeated press and a
\* release of a key that is not held change nothing, a press with six keys
\* held is dropped, usage 0 is the empty slot.  A key is named by the low
\* byte of the usage, which is all a slot can store.
RefPress(ref, key) ==
    IF key = 0 \/ key \in ref \/ Cardinality(ref) >= KEY_SLOTS THEN ref
    ELSE ref \cup {key}

RefRelease(ref, key) == ref \ {key}

HistMove(h, u, buttons, x, y, vertical, horizontal) ==
    IF ~u.usb_mounted THEN h
    ELSE [h EXCEPT
            !.owed = [dx |-> @.dx + x, dy |-> @.dy + y,
                      vertical |-> @.vertical + vertical,
                      horizontal |-> @.horizontal + horizontal],
            !.btn_unreported =
                IF buttons # u.mouse_acc.buttons THEN @ \cup {buttons} ELSE @,
            !.btn_accepted =
                IF buttons # u.mouse_acc.buttons
                   /\ ~queue_is_full(u.fifo_mouse_btn, FIFO_MOUSE_BTN_LEN)
                THEN Append(@, buttons) ELSE @,
            !.late =
                IF ~@.on THEN @
                ELSE [@ EXCEPT !.dx = IF buttons # u.mouse_acc.buttons
                                      THEN 0 ELSE @ + x]]

\* The part of a report's dx that is younger than the latest transition: the
\* accumulator hands out its oldest movement first.
LateCarried(h, r) ==
    LET old == h.owed.dx - h.late.dx
    IN  IF r.dx > old THEN r.dx - old ELSE 0

HistReport(h, u, r) ==
    IF r.id # "MOUSE" THEN h
    ELSE [h EXCEPT
            !.owed = [dx |-> @.dx - r.dx, dy |-> @.dy - r.dy,
                      vertical |-> @.vertical - r.vertical,
                      horizontal |-> @.horizontal - r.horizontal],
            !.btn_unreported = @ \ {r.buttons},
            !.btn_in_order =
                @ /\ (h.btn_accepted = <<>> \/ Head(h.btn_accepted) = r.buttons),
            !.btn_accepted = IF @ = <<>> THEN @ ELSE Tail(@),
            !.mouse_reports = IF @ < 2 THEN @ + 1 ELSE @,
            !.single =
                IF ~@.active THEN @
                ELSE [@ EXCEPT !.reports = @ + 1, !.sum = @ + r.dx,
                               !.wide = @ \/ Abs(r.dx) > CLAMP_MAX],
            !.late =
                IF ~@.on THEN @
                ELSE [@ EXCEPT !.dx = @ - LateCarried(h, r),
                               !.carried = LateCarried(h, r),
                               !.queued = u.fifo_mouse_btn # <<>>,
                               !.stale = r.buttons # u.mouse_acc.buttons]]

\* A mount or unmount frees the queues and zeroes the accumulator: what was
\* pending is gone, and the accounts start again.
HistReset(h) ==
    [h EXCEPT !.owed = ZeroOwed, !.btn_unreported = {},
              !.btn_accepted = <<>>, !.mouse_reports = 0, !.moves = 0,
              !.single = NoSingle, !.late = NoLate, !.dropped = 0,
              !.tick = NoTick]

\* What the boots of one behaviour did.  cause is what ended the previous
\* run; held and waited describe the latest reboot by button.
BootlogInit ==
    [boots |-> 0, log |-> <<>>, cause |-> "power", held |-> FALSE,
     waited |-> 0]

(***************************************************************************)
(* Inputs                                                                  *)
(***************************************************************************)
Keys == {0, 4, 260}

Buttons == {0, 1, 2}

MoveButtons == {0, 1}

\* (x, y, vertical, horizontal), each an int16_t.
Deltas ==
    { <<0, 0, 0, 0>>, <<200, -130, -1, 2>>, <<-300, 127, 0, -128>>,
      <<32767, -32768, 127, -128>> }

Requests ==
    [websocket_upgrade : BOOLEAN, authenticated : BOOLEAN,
     handshake_ok : BOOLEAN, uri : {"/api/hid/release", "/api/status"}]

\* TCP segments of a POST, by length: the header block alone, and a full
\* segment.
SegmentLens == {HeadersLen, SegmentMax}

\* The values of the Content-Length header: no body, a body within the
\* receive buffer, one beyond it, and two that do not fit 16 bits.
ContentLengths ==
    {0, 10, SegmentMax, HTTP_RECV_BUF_SIZE + 1000, 65536, 65536 + 10}

\* The dx of the one movement: within one report, two reports, and more.
SingleMoves == {50 * k : k \in -MaxFifties..MaxFifties} \cup {127, -128, 254}

NoCmd == [type |-> "NONE", arg |-> 0, down |-> FALSE]

\* Keyboard and mouse-button commands, release-all, close and text frames.
InputFrames ==
    [opcode : {"BINARY"},
     cmd : [type : {"KEY"}, arg : {4}, down : BOOLEAN]
           \cup [type : {"MOUSE_BUTTON"}, arg : {1}, down : BOOLEAN]
           \cup {[NoCmd EXCEPT !.type = "RELEASE_ALL"]}]
    \cup [opcode : {"CLOSE", "TEXT"}, cmd : {NoCmd}]

\* Consumer (0xE9 volume up) and system (0x81 power) commands, release-all.
MediaFrames ==
    [opcode : {"BINARY"},
     cmd : [type : {"CONSUMER"}, arg : {233}, down : BOOLEAN]
           \cup [type : {"SYSTEM"}, arg : {129}, down : BOOLEAN]
           \cup {[NoCmd EXCEPT !.type = "RELEASE_ALL"]}]

\* The last network event: its kind, the slot it was for, whether that slot
\* was a framed channel, whether it took over an active session, whether it
\* ended in a completed upgrade, and what the handler wrote.
WireInit ==
    [kind |-> "NONE", conn |-> 0, framed |-> FALSE, takeover |-> FALSE,
     upgraded |-> FALSE, log |-> <<>>, declared |-> 0,
     sent |-> 0,                \* the client's byte stream, by its number
     left |-> 0,                \* how many of its bytes are yet to come
     cmds |-> <<>>,             \* HID commands executed for the stream
     stray |-> <<>>]            \* those that changed the HID core after
                                \* their connection was closed

\* The response of a JSON handler, as the client sees it.
Answer(kind, status) ==
    [WireInit EXCEPT !.kind = kind, !.log = << <<"RESPONSE", 0, status>> >>]

Framed(h, c) == h.connections[c].in_use /\ h.connections[c].state = "WEBSOCKET"

\* A session is active: ws_active_conn points at a live framed channel.
SessionActive(h) == h.ws_active_conn # 0 /\ Framed(h, h.ws_active_conn)

Queued(u) ==
    Len(u.fifo_keyboard) + Len(u.fifo_consumer) + Len(u.fifo_system)
    + Len(u.fifo_mouse_btn)

\* One Settings Store call: the setter and its argument (a string as its
\* characters, a number or flag as a one-element sequence).
Calls ==
    [op : {"force_ap_mode"}, arg : {<<0>>, <<1>>}]
    \cup [op : {"hostname"}, arg : {<<112, 99, 45, 49>>, <<45, 97>>}]
    \cup [op : {"mqtt_port"}, arg : {<<0>>, <<8883>>}]
    \cup [op : {"mqtt_username"}, arg : {<<>>, <<117>>}]

StoreCall(cur, call) ==
    IF call.op = "force_ap_mode"
    THEN (IF call.arg = <<1>> THEN settings_set_force_ap(cur)
          ELSE settings_clear_force_ap(cur))
    ELSE IF call.op = "hostname" THEN settings_set_hostname(cur, call.arg)
    ELSE IF call.op = "mqtt_port" THEN settings_set_mqtt_port(cur, call.arg[1])
    ELSE settings_set_mqtt_username(cur, call.arg)

\* What the last Settings Store step that touched the flash was: the call
\* and its argument, the record its read gave (base), whether it wrote to
\* the end, the record a write in progress is programming (pending), and
\* how many bytes were programmed.
SettingInit == [op |-> "none", arg |-> <<>>, base |-> <<>>, written |-> FALSE,
                pending |-> <<>>, cut |-> 0]

\* What one mqtt_task call finds: everything in order, or one thing not.
Up == [enabled |-> TRUE, wifi_up |-> TRUE, configured |-> TRUE,
       dns |-> "ERR_OK", alloc_ok |-> TRUE, connect_ok |-> TRUE]

TaskInputs ==
    {Up, [Up EXCEPT !.enabled = FALSE], [Up EXCEPT !.wifi_up = FALSE],
     [Up EXCEPT !.configured = FALSE], [Up EXCEPT !.dns = "ERR_INPROGRESS"],
     [Up EXCEPT !.dns = "ERR_VAL"], [Up EXCEPT !.alloc_ok = FALSE],
     [Up EXCEPT !.connect_ok = FALSE]}

\* failures: calls of mqtt_enter_backoff since reconnect_delay_ms was last
\* set to its minimum; wait: how long the last backoff that ran out lasted
\* (0: the current one has not run out).
BackoffInit == [failures |-> 0, wait |-> 0]

(***************************************************************************)
(* Initial state                                                           *)
(***************************************************************************)
Init ==
    /\ usb = UsbInit
    /\ ep = "NONE"
    /\ host = HostInit
    /\ hist = HistInit
    /\ httpd = HttpdInit
    /\ wire = WireInit
    /\ flash = Erased
    /\ setting = SettingInit
    /\ mqtt = MqttInit
    /\ clock = 0
    /\ backoff = BackoffInit
    /\ dev = DevInit
    /\ button = FALSE
    /\ bootlog = BootlogInit
    /\ broker = BrokerInit

(***************************************************************************)
(* USB device callbacks                                                    *)
(***************************************************************************)
Mount ==
    /\ usb' = update_blink_state(tud_mount_cb(usb), dev.wifi_up)
    /\ ep' = "NONE"
    /\ host' = HostInit
    /\ hist' = HistReset(hist)
    /\ UNCHANGED <<netVars, storeVars, bootVars, mqttVars>>

Unmount ==
    /\ usb.usb_mounted
    /\ usb' = update_blink_state(tud_umount_cb(usb), dev.wifi_up)
    /\ ep' = "NONE"
    /\ host' = HostInit
    /\ hist' = HistReset(hist)
    /\ UNCHANGED <<netVars, storeVars, bootVars, mqttVars>>

Suspend ==
    /\ usb.usb_mounted /\ ~usb.usb_suspended
    /\ \E en \in BOOLEAN :
         usb' = update_blink_state(tud_suspend_cb(usb, en), dev.wifi_up)
    /\ UNCHANGED <<ep, host, hist>>
    /\ UNCHANGED <<netVars, storeVars, bootVars, mqttVars>>

Resume ==
    /\ usb.usb_mounted /\ usb.usb_suspended
    /\ usb' = update_blink_state(tud_resume_cb(usb), dev.wifi_up)
    /\ UNCHANGED <<ep, host, hist>>
    /\ UNCHANGED <<netVars, storeVars, bootVars, mqttVars>>

\* A SET_REPORT request or OUT report from the host.
SetReport ==
    /\ usb.usb_mounted
    /\ \E report_type \in {"OUTPUT", "FEATURE"},
          report_id \in {"KEYBOARD", "MOUSE"},
          bufsize \in {0, 1}, kbd_leds \in {0, 1, 2, 3} :
         /\ usb' = IF report_type = "OUTPUT" /\ report_id = "KEYBOARD"
                       /\ bufsize >= 1
                    THEN update_blink_state(
                           tud_hid_set_report_cb(usb, report_type, report_id,
                                                 bufsize, kbd_leds),
                           dev.wifi_up)
                    ELSE usb
    /\ UNCHANGED <<ep, host, hist>>
    /\ UNCHANGED <<netVars, storeVars, bootVars, mqttVars>>

\* The 10 ms tick of hid_task.
HidTask ==
    /\ usb.usb_mounted
    /\ LET r == hid_task(usb, ep)
       IN /\ usb' = r.usb
          /\ ep' = IF r.report.id # "NONE" THEN r.report.id ELSE ep
          /\ host' = Receive(host, r.report)
          /\ hist' = HistReport(hist, usb, r.report)
    /\ UNCHANGED <<netVars, storeVars, bootVars, mqttVars>>

\* tud_hid_report_complete_cb: the transfer in flight is done, the next report
\* of the same id is sent if there is one.
ReportComplete ==
    /\ usb.usb_mounted /\ ~usb.usb_suspended /\ ep # "NONE"
    /\ LET r == send_events(usb, ep)
       IN /\ usb' = r.usb
          /\ ep' = r.report.id
          /\ host' = Receive(host, r.report)
          /\ hist' = HistReport(hist, usb, r.report)
    /\ UNCHANGED <<netVars, storeVars, bootVars, mqttVars>>

(***************************************************************************)
(* HID core calls, from any ingress                                        *)
(***************************************************************************)
PressKey ==
    /\ usb.usb_mounted
    /\ Len(usb.fifo_keyboard) < MaxKbdPending
    /\ \E key \in Keys :
        /\ usb' = press_key(usb, key)
        /\ hist' = [hist EXCEPT !.key_ref = RefPress(@, ToU8(key))]
    /\ UNCHANGED <<ep, host>>
    /\ UNCHANGED <<netVars, storeVars, bootVars, mqttVars>>

ReleaseKey ==
    /\ usb.usb_mounted
    /\ Len(usb.fifo_keyboard) < MaxKbdPending
    /\ \E key \in Keys :
        /\ usb' = depress_key(usb, key)
        /\ hist' = [hist EXCEPT !.key_ref = RefRelease(@, ToU8(key))]
    /\ UNCHANGED <<ep, host>>
    /\ UNCHANGED <<netVars, storeVars, bootVars, mqttVars>>

MoveMouse ==
    /\ usb.usb_mounted
    /\ hist.moves < MaxMoves
    /\ \E b \in MoveButtons, d \in Deltas :
        /\ usb' = move_mouse(usb, b, d[1], d[2], d[3], d[4])
        /\ hist' = [HistMove(hist, usb, b, d[1], d[2], d[3], d[4])
                      EXCEPT !.moves = @ + 1]
    /\ UNCHANGED <<ep, host>>
    /\ UNCHANGED <<netVars, storeVars, bootVars, mqttVars>>

\* A button command: the new mask, no movement.
ClickMouse ==
    /\ usb.usb_mounted
    /\ \E b \in Buttons :
        /\ usb' = move_mouse(usb, b, 0, 0, 0, 0)
        /\ hist' = HistMove(hist, usb, b, 0, 0, 0, 0)
    /\ UNCHANGED <<ep, host>>
    /\ UNCHANGED <<netVars, storeVars, bootVars, mqttVars>>

\* A media key: pressed or released.
ConsumerKey ==
    /\ usb.usb_mounted
    /\ \E down \in BOOLEAN :
         usb' = IF down THEN press_consumer(usb, 233) ELSE release_consumer(usb)
    /\ UNCHANGED <<ep, host, hist>>
    /\ UNCHANGED <<netVars, storeVars, bootVars, mqttVars>>

\* A system-control key: pressed or released.
SystemKey ==
    /\ usb.usb_mounted
    /\ \E down \in BOOLEAN :
         usb' = IF down THEN press_system(usb, 129) ELSE release_system(usb)
    /\ UNCHANGED <<ep, host, hist>>
    /\ UNCHANGED <<netVars, storeVars, bootVars, mqttVars>>

(***************************************************************************)
(* lwIP callbacks of the HTTP server                                       *)
(***************************************************************************)
Accept ==
    /\ Cardinality({c \in ConnIds : httpd.connections[c].in_use}) < MaxClients
    /\ httpd' = http_accept(httpd)
    /\ wire' = [WireInit EXCEPT !.kind = "ACCEPT", !.conn = conn_alloc(httpd)]
    /\ UNCHANGED <<usb, ep, host, hist, storeVars, bootVars, mqttVars>>

\* http_recv with the end of the headers: parse_request.
Request ==
    \E c \in ConnIds, req \in Requests :
        /\ httpd.connections[c].in_use /\ httpd.connections[c].pcb
        /\ httpd.connections[c].state = "RECV_HEADERS"
        /\ LET r == parse_request(usb, http_recv_reset(httpd, c), c, req)
           IN /\ usb' = r.usb
              /\ httpd' = r.httpd
              /\ wire' = [kind |-> IF ~req.websocket_upgrade /\ req.authenticated
                                     /\ req.uri = "/api/hid/release"
                                  THEN "RELEASE_ALL" ELSE "REQUEST",
                          conn |-> c,
                          framed |-> FALSE,
                          takeover |-> /\ req.websocket_upgrade
                                       /\ req.authenticated
                                       /\ SessionActive(httpd)
                                       /\ httpd.ws_active_conn # c,
                          upgraded |-> Framed(r.httpd, c),
                          log |-> r.log]
        /\ UNCHANGED <<ep, host, hist, storeVars, bootVars, mqttVars>>

\* http_recv with a complete frame on a framed channel.
WsFrameFrom(frames) ==
    \E c \in ConnIds, frame \in frames :
        /\ httpd.connections[c].in_use /\ httpd.connections[c].pcb
        /\ httpd.connections[c].state = "WEBSOCKET"
        /\ (frame.opcode = "BINARY" /\ frame.cmd.type # "RELEASE_ALL")
              => Queued(usb) < MaxQueued
        /\ LET r == process_websocket_frame(usb, http_recv_reset(httpd, c), c,
                                            frame)
           IN /\ usb' = r.usb
              /\ httpd' = r.httpd
              /\ wire' = [WireInit EXCEPT
                            !.kind = IF frame.opcode = "CLOSE" THEN "CLOSE_FRAME"
                                     ELSE IF frame.cmd.type = "RELEASE_ALL"
                                     THEN "RELEASE_ALL" ELSE "FRAME",
                            !.conn = c, !.framed = TRUE, !.log = r.log]
        /\ UNCHANGED <<ep, host, hist, storeVars, bootVars, mqttVars>>

WsFrame == WsFrameFrom(InputFrames)

WsMediaFrame == WsFrameFrom(MediaFrames)

\* http_recv with p == NULL.
TcpClose ==
    \E c \in ConnIds :
        /\ httpd.connections[c].in_use /\ httpd.connections[c].pcb
        /\ httpd' = http_recv_closed(httpd, c)
        /\ wire' = [WireInit EXCEPT !.kind = "TCP_CLOSE", !.conn = c,
                                    !.framed = Framed(httpd, c),
                                    !.log = WroteTcpClose(httpd, c)]
        /\ UNCHANGED <<usb, ep, host, hist, storeVars, bootVars, mqttVars>>

TcpErr ==
    \E c \in ConnIds :
        /\ httpd.connections[c].in_use /\ httpd.connections[c].pcb
        /\ usb' = http_err(usb, httpd, c).usb
        /\ httpd' = http_err(usb, httpd, c).httpd
        /\ wire' = [WireInit EXCEPT !.kind = "TCP_ERR", !.conn = c,
                                    !.framed = Framed(httpd, c)]
        /\ UNCHANGED <<ep, host, hist, storeVars, bootVars, mqttVars>>

HttpSent ==
    \E c \in ConnIds :
        /\ httpd.connections[c].in_use /\ httpd.connections[c].pcb
        /\ httpd.connections[c].state = "SENDING_RESPONSE"
        /\ httpd' = http_sent(httpd, c)
        /\ wire' = [WireInit EXCEPT !.kind = "SENT", !.conn = c,
                                    !.log = WroteTcpClose(httpd, c)]
        /\ UNCHANGED <<usb, ep, host, hist, storeVars, bootVars, mqttVars>>

NextWs ==
    \/ Mount \/ Unmount
    \/ HidTask \/ ReportComplete
    \/ Accept \/ Request \/ WsFrame
    \/ TcpClose \/ TcpErr \/ HttpSent

SpecWs == Init /\ [][NextWs]_vars

\* The pool alone: the USB device is never mounted, HID calls are no-ops.
NextPool ==
    \/ Accept \/ Request \/ WsFrame
    \/ TcpClose \/ TcpErr \/ HttpSent

SpecPool == Init /\ [][NextPool]_vars

NextRelease ==
    \/ Mount
    \/ HidTask \/ ReportComplete
    \/ Accept \/ Request \/ WsMediaFrame
    \/ HttpSent

SpecRelease == Init /\ [][NextRelease]_vars

(***************************************************************************)
(* Settings Store calls                                                    *)
(***************************************************************************)
\* A setter call from its read_config to the end of write_config.
SettingsCall ==
    /\ setting.op # "writing"
    /\ \E cur \in {read_config(flash)} :
       \E call \in Calls :
       \E r \in {StoreCall(cur, call)} :
        IF r.written
        THEN /\ flash' = write_config(r.cfg)
             /\ setting' = [op |-> call.op, arg |-> call.arg,
                            base |-> ReadOrFresh(cur), written |-> TRUE,
                            pending |-> <<>>, cut |-> RecordLen]
        ELSE UNCHANGED storeVars
    /\ UNCHANGED <<usb, ep, host, hist, netVars, mqttVars, bootVars>>

\* A setter call up to flash_range_erase in write_config: the sector is
\* erased and the record is about to be programmed.
SettingsCallErase ==
    /\ setting.op # "writing"
    /\ \E cur \in {read_config(flash)} :
       \E call \in Calls :
       \E r \in {StoreCall(cur, call)} :
        /\ r.written
        /\ flash' = Erased
        /\ setting' = [op |-> "writing", arg |-> <<>>, base |-> <<>>,
                       written |-> FALSE, pending |-> r.cfg, cut |-> 0]
    /\ UNCHANGED <<usb, ep, host, hist, netVars, mqttVars, bootVars>>

\* flash_range_program loses power after n bytes of the record.
PowerCut ==
    /\ setting.op = "writing"
    /\ \E n \in 0..(RecordLen - 1) :
        /\ flash' = write_config_cut(setting.pending, n)
        /\ setting' = [op |-> "cut", arg |-> <<>>, base |-> <<>>,
                       written |-> FALSE, pending |-> <<>>, cut |-> n]
    /\ UNCHANGED <<usb, ep, host, hist, netVars, mqttVars, bootVars>>

\* flash_range_program runs to the end of the record.
WriteComplete ==
    /\ setting.op = "writing"
    /\ flash' = write_config(setting.pending)
    /\ setting' = [op |-> "programmed", arg |-> <<>>, base |-> <<>>,
                   written |-> FALSE, pending |-> <<>>, cut |-> RecordLen]
    /\ UNCHANGED <<usb, ep, host, hist, netVars, mqttVars, bootVars>>

NextSettings == SettingsCall \/ SettingsCallErase \/ PowerCut \/ WriteComplete

SpecSettings == Init /\ [][NextSettings]_vars

(***************************************************************************)
(* Pub/sub client steps                                                    *)
(***************************************************************************)
\* The main loop calls mqtt_task.
MqttTask ==
    /\ \E in \in TaskInputs :
        LET r == mqtt_task(mqtt, usb, clock, in)
            stopped == \/ ~in.enabled /\ mqtt.mqtt_state # "DISABLED"
                       \/ /\ in.enabled /\ ~in.wifi_up
                          /\ mqtt.mqtt_state \notin {"IDLE", "DISABLED"}
        IN /\ mqtt' = r.mqtt
           /\ usb' = r.usb
           /\ backoff' =
                IF stopped THEN BackoffInit
                ELSE IF ~in.enabled \/ ~in.wifi_up THEN backoff
                ELSE IF mqtt.mqtt_state = "ERROR"
                THEN [failures |-> backoff.failures + 1, wait |-> 0]
                ELSE IF mqtt.mqtt_state = "BACKOFF"
                        /\ r.mqtt.mqtt_state = "IDLE"
                THEN [backoff EXCEPT !.wait = clock - mqtt.backoff_start_ms]
                ELSE backoff
           /\ broker' =
                Carry(IF /\ in.enabled /\ in.wifi_up /\ in.configured
                         /\ mqtt.mqtt_state \in {"DISABLED", "IDLE"}
                      THEN [mqtt_prepare_topics(broker)
                              EXCEPT !.base = broker.topic]
                      ELSE broker, r.mqtt)
    /\ UNCHANGED <<ep, host, hist, netVars, storeVars, bootVars, clock>>

\* The resolver answers a lookup that was in progress.
MqttDnsFound ==
    /\ mqtt.mqtt_state = "DNS_RESOLVING"
    /\ \E ipaddr \in BOOLEAN, alloc_ok \in BOOLEAN, connect_ok \in BOOLEAN :
        mqtt' = mqtt_dns_callback(mqtt, ipaddr, alloc_ok, connect_ok)
    /\ UNCHANGED <<usb, ep, host, hist, netVars, storeVars, bootVars, clock,
                   backoff, broker>>

\* The client library reports on the connection: the broker's answer to
\* CONNECT, or the loss of a connection that was accepted.
MqttConnection ==
    /\ mqtt.client
    /\ \E status \in {"ACCEPTED", "REFUSED", "DISCONNECTED"},
          subscribe_ok \in BOOLEAN :
        /\ status \in {"ACCEPTED", "REFUSED"}
              <=> mqtt.mqtt_state = "CONNECTING"
        /\ LET r == mqtt_connection_callback(mqtt, usb, status, subscribe_ok)
           IN /\ mqtt' = r.mqtt
              /\ usb' = r.usb
              /\ broker' = IF status = "ACCEPTED" /\ subscribe_ok
                            THEN mqtt_subscribe(broker)
                            ELSE Carry(broker, r.mqtt)
        /\ backoff' = IF status = "ACCEPTED" THEN BackoffInit ELSE backoff
    /\ UNCHANGED <<ep, host, hist, netVars, storeVars, bootVars, clock>>

MqttSubscribed ==
    /\ mqtt.client /\ mqtt.mqtt_state = "SUBSCRIBING"
    /\ \E err_ok \in BOOLEAN :
         /\ mqtt' = mqtt_subscribe_callback(mqtt, err_ok)
         /\ broker' = mqtt_subscribe_callback_traffic(broker, err_ok)
    /\ UNCHANGED <<usb, ep, host, hist, netVars, storeVars, bootVars, clock,
                   backoff>>

MqttReconnect ==
    /\ mqtt' = mqtt_reconnect(mqtt)
    /\ broker' = Carry(broker, mqtt_reconnect(mqtt))
    /\ backoff' = BackoffInit
    /\ UNCHANGED <<usb, ep, host, hist, netVars, storeVars, bootVars, clock>>

\* Time passes by one shortest delay.  The main loop calls mqtt_task many
\* times a millisecond, so time passes only while mqtt_task has nothing to
\* do: switched off, connected, or in a backoff that has not run out.
Tick ==
    /\ clock < MaxClock * MQTT_RECONNECT_MIN_MS
    /\ \/ mqtt.mqtt_state \in {"DISABLED", "READY"}
       \/ /\ mqtt.mqtt_state = "BACKOFF"
          /\ clock - mqtt.backoff_start_ms < mqtt.reconnect_delay_ms
    /\ clock' = clock + MQTT_RECONNECT_MIN_MS
    /\ UNCHANGED <<usb, ep, host, hist, netVars, storeVars, bootVars, mqtt,
                   backoff, broker>>

NextMqtt ==
    \/ MqttTask \/ MqttDnsFound \/ MqttConnection \/ MqttSubscribed
    \/ MqttReconnect \/ Tick

SpecMqtt == Init /\ [][NextMqtt]_vars

(***************************************************************************)
(* Specifications of the HID core                                          *)
(***************************************************************************)
(***************************************************************************)
(* The supervisor: boots, reboots and the BOOTSEL button                   *)
(***************************************************************************)
\* "h" and the empty string, which wifi_credentials_set refuses.
Ssids == { <<104>>, <<>> }

Passwords == { <<112>> }

\* main() from reset to the main loop.
Boot ==
    /\ ~dev.running
    /\ bootlog.boots < MaxBoots
    /\ \E radio_ok \in BOOLEAN :
         \E r \in {main(flash, radio_ok)} :
           /\ flash' = r.flash
           /\ dev' = r.dev
           /\ bootlog' =
                [bootlog EXCEPT
                   !.boots = @ + 1,
                   !.cause = "power",
                   !.log = Append(@,
                       [mode |-> r.dev.mode,
                        ssid |-> r.dev.current_wifi_ssid,
                        cause |-> bootlog.cause,
                        forced |-> settings_get_force_ap(read_config(flash)),
                        stored |-> wifi_credentials_get(read_config(flash))])]
    /\ clock' = 0
    /\ usb' = UsbInit /\ ep' = "NONE"
    /\ httpd' = HttpdInit /\ wire' = WireInit
    /\ mqtt' = MqttInit
    /\ broker' = BrokerInit
    /\ UNCHANGED <<host, hist, setting, backoff, button>>

\* A reset from outside: power is cycled.
PowerCycle ==
    /\ dev.running
    /\ dev' = DevInit
    /\ bootlog' = [bootlog EXCEPT !.cause = "power"]
    /\ UNCHANGED <<usb, ep, host, hist, netVars, storeVars, mqttVars, button>>

PressButton ==
    /\ dev.running /\ ~button
    /\ button' = TRUE
    /\ UNCHANGED <<usb, ep, host, hist, netVars, storeVars, mqttVars, dev,
                   bootlog>>

ReleaseButton ==
    /\ dev.running /\ button
    /\ button' = FALSE
    /\ UNCHANGED <<usb, ep, host, hist, netVars, storeVars, mqttVars, dev,
                   bootlog>>

\* One call of bootsel_task from the main loop, when it has something to
\* do.  When it reboots, the button may have been let go during the three
\* 200 ms waits before watchdog_reboot, or not.
BootselTask ==
    /\ dev.running
    /\ \E r \in {bootsel_task(dev, flash, button, clock)} :
         /\ r.dev # dev
         /\ flash' = r.flash
         /\ IF r.reboot
            THEN \E still_held \in BOOLEAN :
                   /\ button' = still_held
                   /\ dev' = DevInit
                   /\ bootlog' =
                        [bootlog EXCEPT
                           !.cause = "bootsel",
                           !.held = still_held,
                           !.waited = clock - dev.bootsel_press_start
                                        - BOOTSEL_HOLD_TIME_MS + 3 * 200]
            ELSE /\ dev' = r.dev
                 /\ UNCHANGED <<button, bootlog>>
    /\ UNCHANGED <<usb, ep, host, hist, netVars, setting, mqttVars>>

\* Time passes while the button is watched; bootsel_task runs in every
\* iteration of the main loop, so it has run before the clock moves on.
BootTick ==
    /\ dev.running
    /\ dev.bootsel_state = "PRESSED"
    /\ bootsel_task(dev, flash, button, clock).dev = dev
    /\ clock < MaxHeld * BootTickMs
    /\ clock' = clock + BootTickMs
    /\ UNCHANGED <<usb, ep, host, hist, netVars, storeVars, mqtt, backoff,
                   broker, bootVars>>

\* POST /api/config: the credentials are stored and the device reboots, or
\* the request is refused.
ConfigPost ==
    /\ dev.running
    /\ \E ssid \in Ssids, password \in Passwords :
         \E r \in {handle_api_config_post(flash, ssid, password)} :
           /\ flash' = r.flash
           /\ wire' = Answer("CONFIG_POST", r.status)
           /\ IF r.status = 200
              THEN /\ dev' = DevInit
                   /\ bootlog' = [bootlog EXCEPT !.cause = "api"]
              ELSE UNCHANGED <<dev, bootlog>>
    /\ UNCHANGED <<usb, ep, host, hist, httpd, setting, mqttVars, button>>

\* POST /api/settings.
SettingsPost ==
    /\ dev.running
    /\ \E body \in Bodies :
         \E r \in {handle_api_settings_post(flash, body)} :
           /\ flash' = r.flash
           /\ wire' = Answer("SETTINGS_POST", r.status)
    /\ UNCHANGED <<usb, ep, host, hist, httpd, setting, mqttVars, bootVars>>

\* handle_api_reboot_ap.
RebootAp ==
    /\ dev.running
    /\ flash' = write_config(settings_set_force_ap(read_config(flash)).cfg)
    /\ dev' = DevInit
    /\ bootlog' = [bootlog EXCEPT !.cause = "api"]
    /\ UNCHANGED <<usb, ep, host, hist, netVars, setting, mqttVars, button>>

\* The main loop calls wifi_task, in STA mode only.
WifiTask ==
    /\ dev.running /\ ~dev.in_ap_mode
    /\ \E result \in {"DOWN", "UP"} :
         /\ dev' = wifi_task(dev, mqtt, result).dev
         /\ mqtt' = wifi_task(dev, mqtt, result).mqtt
         /\ backoff' = IF result = "UP" /\ dev.prev_result # result
                       THEN BackoffInit ELSE backoff
         /\ usb' = IF result = "UP" /\ dev.prev_result # result
                    THEN update_blink_state(usb, TRUE) ELSE usb
    /\ UNCHANGED <<ep, host, hist, netVars, storeVars, clock, broker,
                   button, bootlog>>

NextBoot ==
    \/ Boot \/ PowerCycle \/ PressButton \/ ReleaseButton
    \/ BootselTask \/ BootTick \/ ConfigPost \/ RebootAp

SpecBoot == Init /\ [][NextBoot]_vars

(***************************************************************************)
(* Requests against the session token                                      *)
(***************************************************************************)
\* auth_init, or auth_regenerate_token after the password was changed.
AuthInit ==
    /\ dev.running
    /\ \E has_password \in BOOLEAN : dev' = auth_init(dev, has_password)
    /\ UNCHANGED <<usb, ep, host, hist, netVars, storeVars, mqttVars, button,
                   bootlog>>

\* http_recv with the end of the headers, the request carrying the session
\* token (req.authenticated) or not.
TokenRequest ==
    /\ dev.running
    /\ \E c \in ConnIds, req \in Requests :
        /\ httpd.connections[c].in_use /\ httpd.connections[c].pcb
        /\ httpd.connections[c].state = "RECV_HEADERS"
        /\ LET r == parse_request(usb, httpd, c,
                      [req EXCEPT !.authenticated =
                          request_is_authenticated(dev, req.authenticated)])
           IN /\ usb' = r.usb
              /\ httpd' = r.httpd
              /\ wire' = [kind |-> "TOKEN_REQUEST",
                          conn |-> c,
                          framed |-> FALSE,
                          takeover |-> FALSE,
                          upgraded |-> Framed(r.httpd, c),
                          log |-> r.log,
                          token |-> req.authenticated,
                          enforced |-> dev.token_valid /\ ~dev.in_ap_mode,
                          req |-> req]
    /\ UNCHANGED <<ep, host, hist, storeVars, bootVars, mqttVars>>

NextAuth ==
    \/ Boot \/ ConfigPost \/ AuthInit
    \/ Accept \/ TokenRequest \/ TcpClose \/ HttpSent

SpecAuth == Init /\ [][NextAuth]_vars

\* A key message arrives on the subscription.
MqttKey ==
    /\ mqtt.client /\ mqtt.mqtt_state = "READY"
    /\ Queued(usb) < MaxQueued
    /\ \E code \in Keys \ {0}, has_down \in BOOLEAN, is_down \in BOOLEAN :
         usb' = mqtt_handle_key(usb, code, has_down, is_down)
    /\ UNCHANGED <<ep, host, hist, netVars, storeVars, bootVars, mqttVars>>

\* The client driving a mounted HID device; the clock stands still, and
\* the client acts on the HID state only while few events are queued.
NextMqttHid ==
    \/ Mount \/ HidTask \/ ReportComplete
    \/ MqttDnsFound \/ MqttSubscribed \/ MqttKey
    \/ (Queued(usb) < MaxQueued /\ MqttTask)
    \/ (Queued(usb) < MaxQueued /\ MqttConnection)
    \/ (Queued(usb) < MaxQueued /\ MqttReconnect)

SpecMqttHid == Init /\ [][NextMqttHid]_vars

\* settings_set_mqtt_topic: the shortest and the longest topic.
Topics == { <<116>>, [i \in 1..MQTT_TOPIC_MAX_LEN |-> 116] }

SetTopic ==
    /\ \E topic \in Topics : broker' = [broker EXCEPT !.topic = topic]
    /\ UNCHANGED <<usb, ep, host, hist, netVars, storeVars, bootVars, mqtt,
                   clock, backoff>>

\* The client, the broker and the keys that arrive; the clock stands
\* still and no report is sent, and the client acts on the HID state only
\* while few events are queued.
NextMqttPub ==
    \/ SetTopic \/ Mount
    \/ MqttDnsFound \/ MqttSubscribed \/ MqttKey
    \/ (Queued(usb) < MaxQueued /\ MqttTask)
    \/ (Queued(usb) < MaxQueued /\ MqttConnection)
    \/ (Queued(usb) < MaxQueued /\ MqttReconnect)

SpecMqttPub == Init /\ [][NextMqttPub]_vars

\* The JSON handlers that write the settings, across reboots.
NextApi == Boot \/ ConfigPost \/ SettingsPost \/ RebootAp

SpecApi == Init /\ [][NextApi]_vars

\* The services of the two modes: the main loop with its STA-only tasks and
\* the HTTP server with one client at a time.  The device is set up in AP
\* mode and boots again in STA mode.
NextServices ==
    \/ (bootlog.boots < 2 /\ Boot)
    \/ (dev.in_ap_mode /\ ConfigPost)
    \/ WifiTask
    \/ (dev.running /\ ~dev.in_ap_mode /\ Queued(usb) < MaxQueued /\ MqttTask)
    \/ (\A c \in ConnIds : ~httpd.connections[c].in_use) /\ Accept
    \/ (Queued(usb) < MaxQueued /\ TokenRequest)
    \/ HttpSent

SpecServices == Init /\ [][NextServices]_vars

\* A POST to a JSON route that changes no other state.
PostRequests ==
    {req \in Requests : ~req.websocket_upgrade /\ req.uri = "/api/status"}

\* The first segment of a POST: the whole header block and the start of the
\* body.
PostHeaders ==
    \E c \in ConnIds, req \in PostRequests, len \in SegmentLens,
       cl \in ContentLengths :
        /\ httpd.connections[c].in_use /\ httpd.connections[c].pcb
        /\ httpd.connections[c].state = "RECV_HEADERS"
        /\ httpd.connections[c].recv_len = 0
        /\ HeadersLen <= len
        /\ LET r == parse_request_post(usb, http_recv_copy(httpd, c, len), c,
                                       req, HeadersLen, cl)
           IN /\ usb' = r.usb
              /\ httpd' = r.httpd
              /\ wire' = [WireInit EXCEPT !.kind = "POST_HEADERS",
                                          !.conn = c, !.log = r.log,
                                          !.declared = cl]
        /\ UNCHANGED <<ep, host, hist, storeVars, bootVars, mqttVars>>

\* A later segment of the body.
PostBody ==
    \E c \in ConnIds, req \in PostRequests, len \in SegmentLens :
        /\ httpd.connections[c].in_use /\ httpd.connections[c].pcb
        /\ httpd.connections[c].state = "RECV_BODY"
        /\ LET r == http_recv_body(usb, http_recv_copy(httpd, c, len), c, req)
           IN /\ usb' = r.usb
              /\ httpd' = r.httpd
              /\ wire' = [WireInit EXCEPT !.kind = "POST_BODY",
                                          !.conn = c, !.log = r.log]
        /\ UNCHANGED <<ep, host, hist, storeVars, bootVars, mqttVars>>

\* The lwIP poll timer of one connection.
HttpPoll ==
    \E c \in ConnIds :
        /\ httpd.connections[c].in_use /\ httpd.connections[c].pcb
        /\ httpd' = http_poll(httpd, c)
        /\ wire' = [WireInit EXCEPT !.kind = "POLL", !.conn = c,
                       !.log = IF http_poll(httpd, c).connections[c].in_use
                               THEN <<>> ELSE WroteTcpClose(httpd, c)]
        /\ UNCHANGED <<usb, ep, host, hist, storeVars, bootVars, mqttVars>>

\* One client at a time.
NextBody ==
    \/ (\A c \in ConnIds : ~httpd.connections[c].in_use) /\ Accept
    \/ PostHeaders \/ PostBody \/ HttpPoll \/ HttpSent

SpecBody == Init /\ [][NextBody]_vars

\* The status the LED shows: the USB callbacks, the host's LED report and
\* the Wi-Fi link of a device that was set up in AP mode and boots again.
NextBlink ==
    \/ (bootlog.boots < 2 /\ Boot)
    \/ (dev.in_ap_mode /\ ConfigPost)
    \/ WifiTask
    \/ Mount \/ Unmount \/ Suspend \/ Resume
    \/ SetReport

SpecBlink == Init /\ [][NextBlink]_vars

\* All four report classes with a few reports waiting at a time.
NextTick ==
    \/ Mount
    \/ HidTask \/ ReportComplete
    \/ (Queued(usb) < MaxQueued /\ PressKey)
    \/ (Queued(usb) < MaxQueued /\ ConsumerKey)
    \/ (Queued(usb) < MaxQueued /\ SystemKey)
    \/ (Queued(usb) < MaxQueued /\ ClickMouse)

SpecTick == Init /\ [][NextTick]_vars

\* One mount session with the host ready: the tick and the completion
\* callback always run in the end; keys and mouse buttons come as they may.
NextStarve ==
    \/ (~usb.usb_mounted /\ Mount)
    \/ HidTask \/ ReportComplete
    \/ (Queued(usb) < MaxQueued /\ PressKey)
    \/ (Queued(usb) < MaxQueued /\ ReleaseKey)
    \/ (Queued(usb) < MaxQueued /\ ClickMouse)

SpecStarve ==
    Init /\ [][NextStarve]_vars /\ WF_vars(HidTask) /\ WF_vars(ReportComplete)

NextKeys ==
    \/ Mount \/ Unmount \/ Suspend \/ Resume
    \/ HidTask \/ ReportComplete
    \/ PressKey \/ ReleaseKey

SpecKeys == Init /\ [][NextKeys]_vars

\* One movement along x, called on a mounted device with nothing pending
\* and no transfer in flight.
MouseCall ==
    /\ usb.usb_mounted /\ ~usb.usb_suspended
    /\ ~AnyPending(usb) /\ ep = "NONE"
    /\ ~hist.single.active
    /\ \E D \in SingleMoves :
        LET a == move_mouse_call(usb, 0, D, 0, 0, 0)
        IN /\ usb' = move_mouse(usb, a.buttons, a.x, a.y, a.vertical,
                                a.horizontal)
           /\ hist' = [HistMove(hist, usb, a.buttons, a.x, a.y, a.vertical,
                                a.horizontal)
                         EXCEPT !.single = [NoSingle EXCEPT !.active = TRUE,
                                                            !.asked = D]]
    /\ UNCHANGED <<ep, host>>
    /\ UNCHANGED <<netVars, storeVars, bootVars, mqttVars>>

NextDrain ==
    \/ Mount \/ Unmount \/ Suspend \/ Resume
    \/ HidTask \/ ReportComplete
    \/ MouseCall

SpecDrain == Init /\ [][NextDrain]_vars

NextMouse ==
    \/ Mount \/ Unmount
    \/ HidTask \/ ReportComplete
    \/ MoveMouse

SpecMouse == Init /\ [][NextMouse]_vars

NextButtons ==
    \/ Mount \/ Unmount
    \/ HidTask \/ ReportComplete
    \/ ClickMouse

SpecButtons == Init /\ [][NextButtons]_vars

(***************************************************************************)
(* Properties of the HID core                                              *)
(***************************************************************************)
HeldKeys(u) == { u.keycodes[i] : i \in Slots } \ {0}

\* C1: while mounted, the held-key set has at most 6 members and is exactly
\* the set of keys pressed more often than released (clamped to presence).
C1_HeldSetMatchesCounts ==
    /\ Cardinality(HeldKeys(usb)) <= KEY_SLOTS
    /\ HeldKeys(usb) = hist.key_ref

FramedSlots == {c \in ConnIds : Framed(httpd, c)}

\* C4: after every disconnect of a framed channel (close frame, TCP close
\* by the client, transport error, takeover) no key is held and the mouse
\* button mask is zero.
C4_DisconnectReleases ==
    (\/ wire.framed /\ wire.kind \in {"CLOSE_FRAME", "TCP_CLOSE", "TCP_ERR"}
     \/ wire.takeover)
    => /\ HeldKeys(usb) = {}
       /\ usb.mouse_acc.buttons = 0

\* C5: when an upgrade succeeds while another session is active, the
\* incumbent is written a close frame with status 4001, release_all is
\* issued and the incumbent's endpoint is closed, all before the 101
\* response is written, and no key is held afterwards.
C5_TakeoverReleases ==
    (wire.takeover /\ wire.upgraded) =>
        /\ \E inc \in ConnIds \ {wire.conn} :
              wire.log = << <<"CLOSE_FRAME", inc, WS_CLOSE_TAKEOVER>>,
                            <<"RELEASE_ALL", inc, 0>>,
                            <<"TCP_CLOSE", inc, 0>>,
                            <<"HANDSHAKE", wire.conn, 101>> >>
        /\ HeldKeys(usb) = {}

\* C6: at most one connection of the pool is in the framed-channel state.
C6_OneFramedChannel == Cardinality(FramedSlots) <= 1

\* A second client has just taken the session over: it is the one framed
\* channel, the first client's slot is closed.
C6_Witness ==
    /\ wire.takeover /\ wire.upgraded
    /\ FramedSlots = {wire.conn}
    /\ httpd.ws_active_conn = wire.conn

\* C7: once the queues have drained after a release-all (framed channel or
\* HTTP /api/hid/release), the last keyboard report is all-zero, the last
\* mouse report has zero buttons, and the last consumer and system reports
\* are zero.
C7_ReleaseAllZeroes ==
    (/\ wire.kind = "RELEASE_ALL"
     /\ usb.usb_mounted /\ ~AnyPending(usb) /\ ep = "NONE")
    => /\ host.kbd.keys = ZeroKeys
       /\ host.mouse.buttons = 0
       /\ host.consumer.code = 0
       /\ host.system.code = 0

(***************************************************************************)
(* Properties of the settings store                                        *)
(***************************************************************************)
IsString(name) == name \in {"hostname", "mqtt_username"}

\* What a read of the record gives for a field.
ReadValue(cfg, name) ==
    IF IsString(name) THEN CStr(GetField(cfg, name))
    ELSE <<FromLE(GetField(cfg, name))>>

\* The settings_flags bit a setter maintains with its field (0: none).
FlagOf(name) ==
    IF name = "hostname" THEN SETTINGS_FLAG_HOSTNAME
    ELSE IF name = "mqtt_port" THEN SETTINGS_FLAG_MQTT_PORT
    ELSE IF name = "mqtt_username" THEN SETTINGS_FLAG_MQTT_USER
    ELSE 0

\* C8: after every setter call that writes, read_config succeeds (magic
\* and checksum verify), the written field reads as the new value, and every
\* other byte of the record, and every other bit of settings_flags, is as
\* the read before the call gave it (the fresh defaults when there was no
\* valid record).
C8_SetterFrame ==
    setting.written =>
        LET new == read_config(flash)
            f == setting.op
        IN /\ new.ok
           /\ ReadValue(new.cfg, f) = setting.arg
           /\ \A i \in RecordIdx \ (Extent(f) \cup Extent("settings_flags")
                                          \cup Extent("checksum")) :
                  new.cfg[i] = setting.base[i]
           /\ BitClear(Flags(new.cfg), FlagOf(f))
                = BitClear(Flags(setting.base), FlagOf(f))

\* A hostname and a broker port were written one after the other, over a
\* record that already had the force-AP flag: all three read back.
C8_Witness ==
    /\ read_config(flash).ok
    /\ setting.op = "mqtt_port" /\ setting.written
    /\ ReadValue(flash, "mqtt_port") = <<8883>>
    /\ ReadValue(flash, "hostname") = <<112, 99, 45, 49>>
    /\ ReadValue(flash, "force_ap_mode") = <<1>>

\* C9: a sector write cut off after N bytes, N less than the record length,
\* with the rest erased, reads as no valid config.
C9_CutWriteIsNoConfig ==
    (setting.op = "cut" /\ setting.cut < RecordLen) => ~read_config(flash).ok

\* The write stopped one byte short of the record: the magic and all the
\* data are in place, only the last checksum byte is missing.
C9_Witness ==
    /\ setting.op = "cut" /\ setting.cut = RecordLen - 1
    /\ GetField(flash, "magic") = ToLE(CONFIG_MAGIC, 4)
    /\ ReadValue(flash, "hostname") = <<112, 99, 45, 49>>

(***************************************************************************)
(* Properties of the pub/sub client                                        *)
(***************************************************************************)
RECURSIVE ClaimedWaitMs(_)
ClaimedWaitMs(k) ==
    IF k <= 1 THEN MQTT_RECONNECT_MIN_MS
    ELSE IF ClaimedWaitMs(k - 1) * MQTT_RECONNECT_MULT > MQTT_RECONNECT_MAX_MS
    THEN MQTT_RECONNECT_MAX_MS
    ELSE ClaimedWaitMs(k - 1) * MQTT_RECONNECT_MULT

\* C10: the wait after the k-th failure in a row is 1, 2, 4, 8, 16, 32, 60,
\* 60, ... seconds, and in Ready the delay is back at 1 s.
C10_BackoffSequence ==
    /\ backoff.wait # 0 => backoff.wait = ClaimedWaitMs(backoff.failures)
    /\ mqtt.mqtt_state = "READY" =>
           mqtt.reconnect_delay_ms = MQTT_RECONNECT_MIN_MS

(***************************************************************************)
(* Properties of the supervisor                                            *)
(***************************************************************************)
\* The fields of the record other than the force flag and the checksum.
OtherFields == {n \in FieldNames : n \notin {"force_ap_mode", "checksum"}}

\* C11: a boot starts AP mode exactly when the force flag is set or the
\* credentials are absent, and otherwise STA mode with the stored
\* credentials; a set flag is cleared by the boot and every other stored
\* field keeps its value.
C11_BootDecision ==
    [][(~dev.running /\ dev'.running) =>
         LET cur == read_config(flash)
             forced == settings_get_force_ap(cur)
             stored == wifi_credentials_get(cur)
         IN /\ (dev'.mode = "AP") <=> (forced \/ ~stored.ok)
            /\ (dev'.mode = "STA") <=> ~(forced \/ ~stored.ok)
            /\ dev'.mode = "STA" =>
                 /\ dev'.current_wifi_ssid = stored.ssid
                 /\ dev'.current_wifi_password = stored.password
            /\ forced =>
                 /\ read_config(flash').ok
                 /\ ~settings_get_force_ap(read_config(flash'))
                 /\ \A n \in OtherFields :
                        GetField(flash', n) = GetField(flash, n)
            /\ ~forced => flash' = flash]_vars

\* A boot found the flag set beside stored credentials and started AP mode,
\* and a later boot started STA mode.
C11_Witness ==
    /\ \E i \in 1..Len(bootlog.log) :
         /\ bootlog.log[i].forced /\ bootlog.log[i].stored.ok
         /\ bootlog.log[i].mode = "AP"
    /\ dev.running /\ dev.mode = "STA"
    /\ dev.current_wifi_ssid = <<104>>

\* C12: after a boot into STA mode with stored credentials, a reboot by
\* long press is followed by a boot into AP mode, and the boot after that,
\* with nothing done to the device in between, starts STA mode with the
\* same credentials.
C12_LongPressRoundTrip ==
    \A i \in 1..Len(bootlog.log) :
        (/\ bootlog.log[i].mode = "STA"
         /\ i + 1 <= Len(bootlog.log)
         /\ bootlog.log[i + 1].cause = "bootsel"
         /\ bootlog.log[i + 1].mode # "HALT")
        => /\ bootlog.log[i + 1].mode = "AP"
           /\ (/\ i + 2 <= Len(bootlog.log)
               /\ bootlog.log[i + 2].cause = "power"
               /\ bootlog.log[i + 2].mode # "HALT")
              => /\ bootlog.log[i + 2].mode = "STA"
                 /\ bootlog.log[i + 2].ssid = bootlog.log[i].ssid

\* C17: the reboot by button happens only once the button has been let go,
\* or 10 s after the hold threshold was passed; never while the button is
\* still held before that.
C17_RebootWaitsForRelease ==
    (~dev.running /\ bootlog.cause = "bootsel")
    => (~bootlog.held \/ bootlog.waited >= 10 * 1000)

(***************************************************************************)
(* Properties of the session token                                         *)
(***************************************************************************)
\* C13: with a token in force (a password is configured and the device is
\* not in AP mode) a request without the token is answered 401 and nothing
\* else: no handler runs, the connection does not become a framed channel,
\* and the HID state and every other connection, the active session among
\* them, stay as they were.  With no token in force the same request is
\* never answered 401.
C13_TokenGuardsRoutes ==
    [][(wire' # wire /\ wire'.kind = "TOKEN_REQUEST") =>
         LET c == wire'.conn
             refusal == <<"RESPONSE", c, 401>>
         IN IF wire'.enforced /\ ~wire'.token
            THEN /\ wire'.log = <<refusal>>
                 /\ ~Framed(httpd', c)
                 /\ usb' = usb
                 /\ httpd'.ws_active_conn = httpd.ws_active_conn
                 /\ \A d \in ConnIds \ {c} :
                        httpd'.connections[d] = httpd.connections[d]
            ELSE /\ \A i \in 1..Len(wire'.log) : wire'.log[i] # refusal
                 /\ (wire'.req.websocket_upgrade /\ wire'.req.handshake_ok)
                        => Framed(httpd', c)]_vars

\* An upgrade without the token was refused while a session was active, in
\* STA mode with a token in force.
C13_Witness ==
    /\ wire.kind = "TOKEN_REQUEST"
    /\ wire.enforced /\ ~wire.token /\ wire.req.websocket_upgrade
    /\ SessionActive(httpd)
    /\ dev.mode = "STA"

(***************************************************************************)
(* Properties of the pub/sub client                                        *)
(***************************************************************************)
\* C14: every step that takes the client out of READY (transport loss,
\* disable, Wi-Fi loss, stop, reconnect request) releases the HID state:
\* no key is held once the client is torn down.
C14_ReadyExitReleases ==
    [][(mqtt.mqtt_state = "READY" /\ mqtt'.mqtt_state # "READY")
         => usb'.keycodes = ZeroKeys]_vars

\* C15: the step that enters READY is the acknowledgement of the
\* subscription to <base>/#, and it publishes "online", retained, to
\* <base>/status, <base> being the topic the connection was started with.
C15_ReadyPublishesOnline ==
    [][(mqtt.mqtt_state # "READY" /\ mqtt'.mqtt_state = "READY")
         => /\ mqtt.mqtt_state = "SUBSCRIBING"
            /\ broker'.traffic.acked = broker.base \o WildcardSuffix
            /\ broker'.traffic.sent =
                 << [topic |-> broker.base \o MQTT_STATUS_SUFFIX,
                     msg |-> "online", retain |-> TRUE] >>]_vars

\* READY with the longest topic, subscribed and announced.
C15_Witness ==
    /\ mqtt.mqtt_state = "READY"
    /\ Len(broker.base) = MQTT_TOPIC_MAX_LEN
    /\ broker.traffic.sent # <<>>

(***************************************************************************)
(* Properties of the JSON handlers                                         *)
(***************************************************************************)
\* C16: a POST /api/settings or POST /api/config answered 400 leaves the
\* stored record as it was.
C16_RefusalChangesNothing ==
    [][(/\ wire' # wire
        /\ wire'.kind \in {"SETTINGS_POST", "CONFIG_POST"}
        /\ wire'.log = << <<"RESPONSE", 0, 400>> >>)
         => flash' = flash]_vars

\* C18: a POST whose Content-Length is larger than the receive buffer is
\* answered with status 400 as soon as its headers are parsed, and no route
\* handler runs for it.
C18_OversizedBodyRefused ==
    [][(/\ wire' # wire
        /\ wire'.kind = "POST_HEADERS"
        /\ wire'.declared > HTTP_RECV_BUF_SIZE)
       => wire'.log = << <<"RESPONSE", wire'.conn, 400>> >>]_vars

\* C19: while the device runs in AP mode the UDP listener is not bound, the
\* pub/sub client is in its initial state and no connection is a framed
\* channel.
C19_ApModeServices ==
    (dev.running /\ dev.in_ap_mode)
        => /\ ~dev.udp_bound
           /\ mqtt.mqtt_state = "DISABLED"
           /\ \A c \in ConnIds : ~Framed(httpd, c)

\* Reports127(D): ceil(|D| / 127).
Reports127(D) == (Abs(D) + CLAMP_MAX - 1) \div CLAMP_MAX

\* C20: one move_mouse(0, D, 0, 0, 0) on an idle device is followed by
\* ceil(|D|/127) mouse reports and no more, each with |dx| <= 127; once
\* nothing is pending their dx sum to D and the accumulator is zero.
C20_SingleMoveDrains ==
    hist.single.active
        => /\ hist.single.reports <= Reports127(hist.single.asked)
           /\ ~hist.single.wide
           /\ ~mouse_has_pending(usb)
                => /\ hist.single.reports = Reports127(hist.single.asked)
                   /\ hist.single.sum = hist.single.asked
                   /\ usb.mouse_acc.dx = 0

\* The pattern the composite status stands for.
BlinkOf(u, wifi_up) ==
    IF u.capslock_on THEN BLINK_CAPSLOCK
    ELSE IF u.usb_suspended THEN BLINK_SUSPENDED
    ELSE IF u.usb_mounted
    THEN (IF wifi_up THEN BLINK_MOUNTED_WIFI_UP ELSE BLINK_MOUNTED_WIFI_DOWN)
    ELSE (IF wifi_up THEN BLINK_NOT_MOUNTED_WIFI_UP
          ELSE BLINK_NOT_MOUNTED_WIFI_DOWN)

\* C21: whenever a status change chooses the blink pattern, the pattern is
\* solid-on if capslock is on, else the slow cadence if the host is
\* suspended, else the one given by (mounted, Wi-Fi up).
C21_BlinkPattern ==
    [][usb' # usb => usb'.blink_state = BlinkOf(usb', dev'.wifi_up)]_vars

\* The class first in the order keyboard, consumer, system, mouse that has
\* something to send.
HighestPending(u) ==
    IF u.fifo_keyboard # <<>> THEN "KEYBOARD"
    ELSE IF u.fifo_consumer # <<>> THEN "CONSUMER_CONTROL"
    ELSE IF u.fifo_system # <<>> THEN "SYSTEM_CONTROL"
    ELSE "MOUSE"

\* C22: a dispatcher tick that emits (the endpoint was idle and is busy
\* after the step) emits one report, of the highest-priority class with
\* pending work; the queues of the other classes are as they were.
C22_TickServesHighest ==
    [][(ep = "NONE" /\ ep' # "NONE")
        => /\ ep' = HighestPending(usb)
           /\ AnyPending(usb)
           /\ Queued(usb) - Queued(usb') <= 1
           /\ ep' # "KEYBOARD" => usb'.fifo_keyboard = usb.fifo_keyboard
           /\ ep' # "CONSUMER_CONTROL"
                => usb'.fifo_consumer = usb.fifo_consumer
           /\ ep' # "SYSTEM_CONTROL" => usb'.fifo_system = usb.fifo_system
           /\ ep' # "MOUSE" => /\ usb'.fifo_mouse_btn = usb.fifo_mouse_btn
                                /\ usb'.mouse_acc = usb.mouse_acc]_vars

\* A tick served the consumer class while a mouse transition waits.
C22_Witness ==
    /\ ep = "CONSUMER_CONTROL"
    /\ host.consumer.sent /\ ~host.mouse.sent
    /\ mouse_has_pending(usb)

\* C23: with the host mounted, resumed and ready, a class with pending work
\* gets a report of its own onto the endpoint in the end: a waiting keyboard
\* snapshot is sent, and pending mouse work is sent even while keyboard
\* traffic goes on.
C23_NoStarvation ==
    /\ (usb.fifo_keyboard # <<>>) ~> (ep = "KEYBOARD")
    /\ mouse_has_pending(usb) ~> (ep = "MOUSE")


(***************************************************************************)
(* Movement and button transitions in one stream of mouse reports          *)
(***************************************************************************)
GlideSteps == {10, 2 * CLAMP_MAX}

\* A movement command with the buttons as they are: dx only.
Glide ==
    /\ usb.usb_mounted
    /\ hist.moves < MaxMoves
    /\ \E d \in GlideSteps :
        /\ usb' = move_mouse(usb, usb.mouse_acc.buttons, d, 0, 0, 0)
        /\ hist' = [HistMove([hist EXCEPT !.late.on = TRUE], usb,
                              usb.mouse_acc.buttons, d, 0, 0, 0)
                      EXCEPT !.moves = @ + 1]
    /\ UNCHANGED <<ep, host>>
    /\ UNCHANGED <<netVars, storeVars, bootVars, mqttVars>>

NextOrder ==
    \/ (~usb.usb_mounted /\ Mount)
    \/ HidTask
    \/ ReportComplete
    \/ (Queued(usb) < MaxQueued /\ ClickMouse)
    \/ Glide

SpecOrder == Init /\ [][NextOrder]_vars

\* C24: movement requested after a button transition is emitted only in
\* reports that come after that transition's report and carry the mask then
\* current: a mouse report that carries any of the movement younger than the
\* latest transition did not take its mask from the transition queue, and
\* its mask is the current one.
C24_MovementAfterTransition ==
    (hist.late.on /\ hist.late.carried > 0)
        => (~hist.late.queued /\ ~hist.late.stale)


(***************************************************************************)
(* What a mount leaves behind                                              *)
(***************************************************************************)
NextRemount ==
    \/ Mount \/ Unmount \/ Suspend \/ Resume
    \/ HidTask \/ ReportComplete
    \/ (Queued(usb) < MaxQueued /\ PressKey)
    \/ (Queued(usb) < MaxQueued /\ ClickMouse)
    \/ SetReport

SpecRemount == Init /\ [][NextRemount]_vars

\* C25: immediately after a mount event, first or repeated, the HID core is
\* fully reset: the four queues are empty, the accumulator and both button
\* masks are zero, the six-slot key set is empty, and the suspended and
\* capslock flags are false.
C25_MountResets ==
    [][Mount => /\ usb'.fifo_keyboard = <<>> /\ usb'.fifo_consumer = <<>>
                /\ usb'.fifo_system = <<>> /\ usb'.fifo_mouse_btn = <<>>
                /\ usb'.mouse_acc = ZeroAcc
                /\ usb'.keycodes = ZeroKeys
                /\ ~usb'.usb_suspended
                /\ ~usb'.capslock_on]_vars


\* C26: whenever the active-session pointer is non-null it refers to a pool
\* slot that is in use, owns a TCP endpoint and is in the framed-channel
\* state, after every kind of connection close, a TCP close by the client
\* included.
C26_ActiveSessionIsFramed ==
    httpd.ws_active_conn # 0 =>
        LET conn == httpd.connections[httpd.ws_active_conn]
        IN  conn.in_use /\ conn.pcb /\ conn.state = "WEBSOCKET"


(***************************************************************************)
(* The framed channel, byte by byte (httpd_websocket.c)                    *)
(***************************************************************************)
\* The command process_hid_command reads from a payload.
hid_command(payload) ==
    LET len == Len(payload)
        cmd_type == payload[1]
    IN  IF len < 1 THEN NoCmd
        ELSE IF cmd_type = HID_CMD_KEY /\ len >= 3
        THEN [type |-> "KEY", arg |-> payload[2], down |-> payload[3] # 0]
        ELSE IF cmd_type = HID_CMD_MOUSE_MOVE /\ len >= 5
        THEN [type |-> "MOUSE_MOVE",
              arg |-> <<ToInt16(payload[2] + 256 * payload[3]),
                        ToInt16(payload[4] + 256 * payload[5])>>,
              down |-> FALSE]
        ELSE IF cmd_type = HID_CMD_MOUSE_BUTTON /\ len >= 3
        THEN [type |-> "MOUSE_BUTTON", arg |-> payload[2],
              down |-> payload[3] # 0]
        ELSE IF cmd_type = HID_CMD_SCROLL /\ len >= 3
        THEN [type |-> "SCROLL",
              arg |-> <<ToInt8(payload[2]), ToInt8(payload[3])>>,
              down |-> FALSE]
        ELSE IF cmd_type = HID_CMD_CONSUMER /\ len >= 4
        THEN [type |-> "CONSUMER", arg |-> payload[2] + 256 * payload[3],
              down |-> payload[4] # 0]
        ELSE IF cmd_type = HID_CMD_SYSTEM /\ len >= 4
        THEN [type |-> "SYSTEM", arg |-> payload[2] + 256 * payload[3],
              down |-> payload[4] # 0]
        ELSE IF cmd_type = HID_CMD_RELEASE_ALL
        THEN [NoCmd EXCEPT !.type = "RELEASE_ALL"]
        ELSE NoCmd

\* The header of the frame at the start of data: the bytes the frame takes
\* (0: not all here yet), whether it is executed, its opcode and where its
\* payload lies.
ws_frame_header(data) ==
    LET len == Len(data)
        none == [consumed |-> 0, run |-> FALSE, opcode |-> 0,
                 header_len |-> 0, payload_len |-> 0, mask |-> <<0, 0, 0, 0>>]
    IN  IF len < 2 THEN none
        ELSE
        LET opcode == data[1] % 16
            masked == data[2] >= 128
            len7 == data[2] % 128
        IN  IF len7 = 126 /\ len < 4 THEN none
            ELSE IF len7 = 127 THEN [none EXCEPT !.consumed = len]
            ELSE
            LET payload_len == IF len7 = 126 THEN data[3] * 256 + data[4]
                               ELSE len7
                header_len0 == IF len7 = 126 THEN 4 ELSE 2
            IN  IF masked /\ len < header_len0 + 4 THEN none
                ELSE
                LET header_len == IF masked THEN header_len0 + 4
                                  ELSE header_len0
                    mask == IF masked
                            THEN SubSeq(data, header_len0 + 1, header_len0 + 4)
                            ELSE <<0, 0, 0, 0>>
                    frame_len == header_len + payload_len
                IN  IF len < frame_len THEN none
                    ELSE [consumed |-> frame_len,
                          run |-> payload_len <= WS_FRAME_BUF_SIZE,
                          opcode |-> opcode, header_len |-> header_len,
                          payload_len |-> payload_len, mask |-> mask]

\* The name the frame-level operators know an opcode by.
OpcodeName(opcode) ==
    IF opcode = WS_OPCODE_BINARY THEN "BINARY"
    ELSE IF opcode = WS_OPCODE_CLOSE THEN "CLOSE"
    ELSE IF opcode = WS_OPCODE_TEXT THEN "TEXT"
    ELSE IF opcode = WS_OPCODE_PING THEN "PING"
    ELSE "OTHER"

\* for (i = 0; i < payload_len; i++) payload[i] = data[header_len + i] ^ mask[i % 4]
ws_unmask(data, f) ==
    [i \in 1..f.payload_len |->
        BitXor(data[f.header_len + i], f.mask[((i - 1) % 4) + 1])]

\* The frame a header and its unmasked payload make.
ws_frame(f, payload) ==
    [opcode |-> OpcodeName(f.opcode),
     cmd |-> IF f.opcode = WS_OPCODE_BINARY THEN hid_command(payload)
             ELSE NoCmd]

\* What the switch on the opcode did: r is the frame-level outcome; a ping
\* with a short payload is answered when the connection has its pcb.
ws_frame_done(u, h, c, f, frame, r) ==
    [usb |-> r.usb, httpd |-> r.httpd,
     log |-> IF frame.opcode = "PING"
             THEN (IF f.payload_len < 126 /\ h.connections[c].pcb
                   THEN << <<"PONG", c, 0>> >> ELSE <<>>)
             ELSE r.log,
     cmds |-> IF frame.opcode = "BINARY" /\ f.payload_len >= 1
              THEN <<frame.cmd>> ELSE <<>>,
     stray |-> IF frame.opcode = "BINARY" /\ ~h.connections[c].in_use
                  /\ r.usb # u
               THEN <<frame.cmd>> ELSE <<>>,
     consumed |-> f.consumed]

ws_frame_run(u, h, c, f, frame) ==
    ws_frame_done(u, h, c, f, frame, process_websocket_frame(u, h, c, frame))

ws_frame_step(u, h, c, data, f) ==
    IF ~f.run
    THEN [usb |-> u, httpd |-> h, log |-> <<>>, cmds |-> <<>>,
          stray |-> <<>>, consumed |-> f.consumed]
    ELSE ws_frame_run(u, h, c, f, ws_frame(f, ws_unmask(data, f)))

\* process_websocket_frame on the bytes of the reassembly buffer.
process_websocket_frame_data(u, h, c, data) ==
    ws_frame_step(u, h, c, data, ws_frame_header(data))

\* The buffer after consumed bytes were taken from its front.
ws_consume(h, c, consumed) ==
    [h EXCEPT !.connections[c].ws_recv_buf =
        IF consumed >= Len(@) THEN <<>> ELSE SubSeq(@, consumed + 1, Len(@))]

ws_join(r, rest) ==
    [usb |-> rest.usb, httpd |-> rest.httpd, log |-> r.log \o rest.log,
     cmds |-> r.cmds \o rest.cmds, stray |-> r.stray \o rest.stray]

\* process_ws_recv_buffer: frames are taken from the front of the buffer
\* while bytes remain, a whole frame is there and the state is CONN_WEBSOCKET.
RECURSIVE process_ws_recv_buffer(_, _, _)
ws_recv_loop(u, h, c, r) ==
    IF r.consumed = 0
    THEN [usb |-> u, httpd |-> h, log |-> <<>>, cmds |-> <<>>, stray |-> <<>>]
    ELSE ws_join(r, process_ws_recv_buffer(
                        r.usb, ws_consume(r.httpd, c, r.consumed), c))

process_ws_recv_buffer(u, h, c) ==
    IF ~(Len(h.connections[c].ws_recv_buf) > 0
         /\ h.connections[c].state = "WEBSOCKET")
    THEN [usb |-> u, httpd |-> h, log |-> <<>>, cmds |-> <<>>, stray |-> <<>>]
    ELSE ws_recv_loop(u, h, c,
            process_websocket_frame_data(u, h, c,
                                         h.connections[c].ws_recv_buf))

\* httpd_websocket_recv with a pbuf of one piece holding the bytes seg.
ws_recv_copy(h, c, seg) ==
    [h EXCEPT !.connections[c].ws_recv_buf =
        @ \o SubSeq(seg, 1, IF Len(@) + Len(seg) > WS_RECV_BUF_SIZE
                            THEN WS_RECV_BUF_SIZE - Len(@) ELSE Len(seg))]

httpd_websocket_recv(u, h, c, seg) ==
    process_ws_recv_buffer(u, ws_recv_copy(h, c, seg), c)

\* What a client puts on the wire for a frame: FIN and opcode, the mask bit
\* and the length in the form the frame names, the masking key, the payload
\* masked.
EncodeFrame(f) ==
    LET n == Len(f.payload)
        length == IF f.form = 64
                  THEN <<128 + 127, 0, 0, 0, 0, 0, 0, n \div 256, n % 256>>
                  ELSE IF f.form = 16 \/ n >= 126
                  THEN <<128 + 126, n \div 256, n % 256>>
                  ELSE <<128 + n>>
    IN  <<128 + f.opcode>> \o length \o f.mask
        \o [i \in 1..n |-> BitXor(f.payload[i], f.mask[((i - 1) % 4) + 1])]

RECURSIVE EncodeStream(_)
EncodeStream(fs) ==
    IF fs = <<>> THEN <<>> ELSE EncodeFrame(Head(fs)) \o EncodeStream(Tail(fs))

Pad(prefix, n) == prefix \o [i \in 1..(n - Len(prefix)) |-> 0]

ClientMask == <<55, 250, 33, 61>>

\* A key command in a frame whose payload is padded to n bytes.
KeyFrame(key, down, n) ==
    [opcode |-> WS_OPCODE_BINARY, form |-> 7, mask |-> ClientMask,
     payload |-> Pad(<<HID_CMD_KEY, key, IF down THEN 1 ELSE 0>>, n)]

CloseFrame ==
    [opcode |-> WS_OPCODE_CLOSE, form |-> 7, mask |-> ClientMask,
     payload |-> <<>>]

PingFrame ==
    [opcode |-> WS_OPCODE_PING, form |-> 7, mask |-> ClientMask,
     payload |-> <<1>>]

BigPayload == 250       \* a payload within the cap, two of them fill the buffer
OverPayload == 300      \* a payload over the cap whose frame fits the buffer
HugePayload == 600      \* a payload over the cap whose frame does not fit

Streams ==
    << <<KeyFrame(4, TRUE, 3), KeyFrame(4, FALSE, 3), PingFrame,
        KeyFrame(5, TRUE, 3)>>,
      <<KeyFrame(4, TRUE, 3), CloseFrame, KeyFrame(5, TRUE, 3)>>,
      <<KeyFrame(4, TRUE, BigPayload), KeyFrame(5, TRUE, BigPayload),
        KeyFrame(6, TRUE, 3)>>,
      <<KeyFrame(7, TRUE, OverPayload), KeyFrame(4, TRUE, 3)>>,
      <<KeyFrame(7, TRUE, HugePayload), KeyFrame(4, TRUE, 3)>>,
      <<[KeyFrame(7, TRUE, 3) EXCEPT !.form = 64], KeyFrame(4, TRUE, 3)>> >>

\* The bytes of each stream as the client writes them.
StreamBytes == [s \in DOMAIN Streams |-> EncodeStream(Streams[s])]

SmallSegment == 7
MidSegment == 300
SegmentSizes == {SmallSegment, MidSegment, SegmentMax}

\* The segment that carries the next k bytes when left bytes are to come.
StreamSegment(s, left, k) ==
    SubSeq(StreamBytes[s], Len(StreamBytes[s]) - left + 1,
           Len(StreamBytes[s]) - left + k)

WsDeliver(c, s, left, k, r) ==
    /\ usb' = r.usb
    /\ httpd' = r.httpd
    /\ wire' = [WireInit EXCEPT
                  !.kind = "SEGMENT", !.conn = c, !.framed = TRUE,
                  !.log = r.log, !.sent = s, !.left = left - k,
                  !.cmds = (IF wire.kind = "SEGMENT" THEN wire.cmds ELSE <<>>)
                           \o r.cmds,
                  !.stray = (IF wire.kind = "SEGMENT" THEN wire.stray
                             ELSE <<>>) \o r.stray]

WsCut(c, s, left, k) ==
    WsDeliver(c, s, left, k,
              httpd_websocket_recv(usb, http_recv_reset(httpd, c), c,
                                   StreamSegment(s, left, k)))

WsFrom(c, s, left, n) == WsCut(c, s, left, IF n < left THEN n ELSE left)

\* http_recv on a framed channel with the next bytes of the client's stream,
\* a new stream when none is under way.
WsSegment ==
    \E c \in ConnIds, n \in SegmentSizes, s \in DOMAIN Streams :
        /\ httpd.connections[c].in_use /\ httpd.connections[c].pcb
        /\ httpd.connections[c].state = "WEBSOCKET"
        /\ wire.kind = "SEGMENT" => (s = wire.sent /\ wire.left > 0)
        /\ WsFrom(c, s, IF wire.kind = "SEGMENT" THEN wire.left
                        ELSE Len(StreamBytes[s]), n)
        /\ UNCHANGED <<ep, host, hist, storeVars, bootVars, mqttVars>>

NextStream ==
    \/ (~usb.usb_mounted /\ Mount)
    \/ ((\A c \in ConnIds : ~httpd.connections[c].in_use)
            /\ ~AnyPending(usb) /\ Accept)
    \/ Request
    \/ WsSegment
    \/ HttpSent

SpecStream == Init /\ [][NextStream]_vars

\* The HID commands of the frames that are binary with a payload within the
\* cap and a length form the channel takes, in stream order, up to the first
\* close frame.
RECURSIVE CommandsOf(_)
CommandsOf(fs) ==
    IF fs = <<>> \/ Head(fs).opcode = WS_OPCODE_CLOSE THEN <<>>
    ELSE (IF /\ Head(fs).opcode = WS_OPCODE_BINARY
             /\ Head(fs).form # 64
             /\ Len(Head(fs).payload) \in 1..WS_FRAME_BUF_SIZE
          THEN <<hid_command(Head(fs).payload)>> ELSE <<>>)
         \o CommandsOf(Tail(fs))

WithinCap(fs) ==
    \A i \in 1..Len(fs) :
        fs[i].form # 64 /\ Len(fs[i].payload) <= WS_FRAME_BUF_SIZE

HasClose(fs) == \E i \in 1..Len(fs) : fs[i].opcode = WS_OPCODE_CLOSE

\* C27: after a framed-channel connection has handled a close frame, no
\* later frame in the same receive buffer is executed: no HID event is
\* injected and nothing is written on behalf of the closed connection.
C27_NothingAfterClose ==
    (wire.kind = "SEGMENT" /\ HasClose(Streams[wire.sent]))
        => /\ wire.stray = <<>>
           /\ \A i \in 1..Len(wire.log) :
                 wire.log[i][1] = "TCP_CLOSE" => i = Len(wire.log)

\* C28: however the client's byte stream is cut into TCP segments, one
\* longer than the 512-byte reassembly buffer included, the HID commands
\* executed once the stream is delivered are exactly those of its complete
\* frames with a payload within the cap, in stream order.
C28_SegmentationInvariant ==
    (/\ wire.kind = "SEGMENT" /\ wire.left = 0
     /\ WithinCap(Streams[wire.sent]) /\ ~HasClose(Streams[wire.sent]))
        => wire.cmds = CommandsOf(Streams[wire.sent])

\* C29: a frame whose payload exceeds the reassembly cap, or that uses the
\* 64-bit extended length, injects no HID event and is discarded alone: the
\* valid frames that follow it on the connection are processed.
C29_OversizedDroppedAlone ==
    (/\ wire.kind = "SEGMENT" /\ wire.left = 0
     /\ ~WithinCap(Streams[wire.sent]))
        => wire.cmds = CommandsOf(Streams[wire.sent])


(***************************************************************************)
(* Key events faster than the host polls                                   *)
(***************************************************************************)
BurstKey == 4
MaxDropped == 1         \* key events are issued while fewer were dropped

\* A key event from any ingress, however many snapshots wait.
TapKey ==
    /\ usb.usb_mounted
    /\ hist.dropped < MaxDropped
    /\ \E down \in BOOLEAN :
        /\ usb' = IF down THEN press_key(usb, BurstKey)
                   ELSE depress_key(usb, BurstKey)
        /\ usb' # usb
        /\ hist' = [hist EXCEPT
                      !.key_ref = IF down THEN RefPress(@, BurstKey)
                                  ELSE RefRelease(@, BurstKey),
                      !.dropped = IF usb'.fifo_keyboard = usb.fifo_keyboard
                                  THEN @ + 1 ELSE @]
    /\ UNCHANGED <<ep, host>>
    /\ UNCHANGED <<netVars, storeVars, bootVars, mqttVars>>

NextBurst ==
    \/ (~usb.usb_mounted /\ Mount)
    \/ HidTask
    \/ ReportComplete
    \/ TapKey

SpecBurst == Init /\ [][NextBurst]_vars

\* C30: whenever the keyboard queue is empty and a keyboard snapshot has
\* been enqueued since the mount (so a keyboard report has gone out), the
\* last keyboard report sent to the host equals the current six-slot key
\* set, also after enqueue attempts were dropped on a full queue.
C30_LastReportIsKeySet ==
    (usb.usb_mounted /\ usb.fifo_keyboard = <<>> /\ host.kbd.sent)
        => host.kbd.keys = usb.keycodes


(***************************************************************************)
(* Button transitions faster than the host polls                           *)
(***************************************************************************)
BurstButtons == {0, 1}

\* A button command from any ingress, however many transitions wait.
ClickBurst ==
    /\ usb.usb_mounted
    /\ hist.dropped < MaxDropped
    /\ \E b \in BurstButtons :
        /\ usb' = move_mouse(usb, b, 0, 0, 0, 0)
        /\ usb' # usb
        /\ hist' = [HistMove(hist, usb, b, 0, 0, 0, 0) EXCEPT
                      !.dropped = IF usb'.fifo_mouse_btn = usb.fifo_mouse_btn
                                  THEN @ + 1 ELSE @]
    /\ UNCHANGED <<ep, host>>
    /\ UNCHANGED <<netVars, storeVars, bootVars, mqttVars>>

NextFlood ==
    \/ (~usb.usb_mounted /\ Mount)
    \/ HidTask
    \/ ReportComplete
    \/ ClickBurst

SpecFlood == Init /\ [][NextFlood]_vars

\* C31: whenever the mouse class has no pending work, the button field of
\* the last emitted mouse report equals the current button mask, also after
\* button transitions were dropped on the full 8-entry transition queue.
C31_LastButtonsAreMask ==
    (usb.usb_mounted /\ ~mouse_has_pending(usb) /\ host.mouse.sent)
        => host.mouse.buttons = usb.mouse_acc.buttons

\* A transition was dropped and the class has drained since.
C31_Witness ==
    /\ usb.usb_mounted /\ ~mouse_has_pending(usb) /\ host.mouse.sent
    /\ hist.dropped > 0


(***************************************************************************)
(* The client's states, with lookups that outlive the attempt              *)
(***************************************************************************)
\* The main loop calls mqtt_task; a lookup the resolver did not answer at
\* once stays with the resolver.
MqttTaskLookup ==
    /\ \E in \in TaskInputs :
        LET r == mqtt_task(mqtt, usb, clock, in)
            starts == /\ in.enabled /\ in.wifi_up /\ in.configured
                      /\ mqtt.mqtt_state \in {"DISABLED", "IDLE"}
        IN /\ mqtt' = r.mqtt
           /\ usb' = r.usb
           /\ broker' =
                [Carry(IF starts
                       THEN [mqtt_prepare_topics(broker)
                               EXCEPT !.base = broker.topic]
                       ELSE broker, r.mqtt)
                 EXCEPT !.lookup = @ \/ (starts /\ in.dns = "ERR_INPROGRESS"),
                        !.path = <<mqtt.mqtt_state>>
                                   \o mqtt_task_states(mqtt, usb, clock, in),
                        !.flip = ~@]
    /\ UNCHANGED <<ep, host, hist, netVars, storeVars, bootVars, clock,
                   backoff>>

\* The resolver answers a request it holds, whatever the client did since
\* dns_gethostbyname took the request.
MqttDnsLate ==
    /\ broker.lookup
    /\ \E ipaddr \in BOOLEAN, alloc_ok \in BOOLEAN, connect_ok \in BOOLEAN :
        /\ mqtt' = mqtt_dns_callback(mqtt, ipaddr, alloc_ok, connect_ok)
        /\ broker' = [Carry(broker, mqtt') EXCEPT !.lookup = FALSE]
    /\ UNCHANGED <<usb, ep, host, hist, netVars, storeVars, bootVars, clock,
                   backoff>>

NextLate == MqttTaskLookup \/ MqttDnsLate \/ MqttConnection \/ MqttSubscribed

SpecLate == Init /\ [][NextLate]_vars

\* The changes of state the state machine has.
MqttStates ==
    {"DISABLED", "IDLE", "DNS_RESOLVING", "CONNECTING", "SUBSCRIBING",
     "READY", "ERROR", "BACKOFF"}

StateChanges ==
    { <<"DISABLED", "IDLE">>, <<"IDLE", "DNS_RESOLVING">>,
      <<"DNS_RESOLVING", "CONNECTING">>, <<"CONNECTING", "SUBSCRIBING">>,
      <<"SUBSCRIBING", "READY">>, <<"ERROR", "BACKOFF">>,
      <<"BACKOFF", "IDLE">> }
        \cup (MqttStates \X {"ERROR", "DISABLED", "IDLE"})

AlongChanges(path) ==
    \A i \in 1..(Len(path) - 1) :
        path[i] # path[i + 1] => <<path[i], path[i + 1]>> \in StateChanges

\* C32: every change of the client's state is one of Disabled -> Idle ->
\* DnsResolving -> Connecting -> Subscribing -> Ready, a change to Error,
\* Error -> Backoff, Backoff -> Idle, or a change to Disabled or Idle; this
\* holds of each assignment mqtt_task makes and of each callback, so
\* Connecting is entered only from DnsResolving and Ready only from
\* Subscribing.
C32_StateChangesAlongMachine ==
    [][IF broker'.flip # broker.flip THEN AlongChanges(broker'.path)
       ELSE AlongChanges(<<mqtt.mqtt_state, mqtt'.mqtt_state>>)]_vars


(***************************************************************************)
(* The services across a loss of the link                                  *)
(***************************************************************************)
\* wifi_task reads CYW43_LINK_UP after another status, in a run whose
\* services were started before.
LinkRecovers ==
    /\ dev.running /\ dev'.running /\ ~dev.in_ap_mode
    /\ dev.udp_bound
    /\ dev.prev_result # "UP" /\ dev'.prev_result = "UP"

\* C33: in STA mode the services are started once per boot, when the link
\* first has an address; when the link is lost and comes back they are not
\* started again and the pub/sub client keeps its state.
C33_ServicesStartOnce == [][LinkRecovers => mqtt' = mqtt]_vars


(***************************************************************************)
(* An upgrade that does not complete                                       *)
(***************************************************************************)
\* C34: when an upgrade request arrives on another connection while a
\* session is active and its handshake does not complete, the incumbent
\* stays the active framed channel and the held keys stay held.
C34_FailedUpgradeKeepsSession ==
    [][\A inc \in ConnIds :
         (/\ SessionActive(httpd) /\ httpd.ws_active_conn = inc
          /\ wire'.kind = "REQUEST" /\ wire'.conn # inc
          /\ wire'.takeover /\ ~wire'.upgraded)
            => /\ Framed(httpd', inc) /\ httpd'.ws_active_conn = inc
               /\ usb'.keycodes = usb.keycodes]_vars


(***************************************************************************)
(* The flag at the reboot into provisioning                                *)
(***************************************************************************)
\* C35: when the device reboots into provisioning, by long press or by
\* POST /api/reboot-ap, the Settings Store holds the force-provisioning
\* flag at the moment of the reboot.
C35_FlagStoredBeforeReboot ==
    [][((BootselTask /\ ~dev'.running) \/ RebootAp)
          => settings_get_force_ap(read_config(flash'))]_vars


(***************************************************************************)
(* The idle timer                                                          *)
(***************************************************************************)
\* Requests, bodies, frames and the poll timer on a framed channel and one
\* other connection at a time; the USB device is not mounted.
NextIdle ==
    \/ ((\A c \in ConnIds : httpd.connections[c].in_use => Framed(httpd, c))
           /\ Accept)
    \/ Request \/ PostHeaders \/ PostBody \/ WsFrame
    \/ HttpPoll \/ HttpSent

SpecIdle == Init /\ [][NextIdle]_vars

\* The step is http_poll for connection c.
Polled(c) == wire'.kind = "POLL" /\ wire'.conn = c

\* The step is http_recv with bytes for connection c.
Received(c) ==
    /\ wire'.kind \in {"REQUEST", "RELEASE_ALL", "POST_HEADERS", "POST_BODY",
                       "FRAME", "CLOSE_FRAME"}
    /\ wire'.conn = c

\* C36: the fourth poll in a row with no byte received in between closes a
\* connection that is not a framed channel and frees its slot, an earlier
\* poll only counts; a received byte restarts the count; a poll never
\* changes a framed channel.
C36_IdleTimer ==
    [][\A c \in ConnIds :
         LET conn == httpd.connections[c]
             after == httpd'.connections[c]
         IN /\ (Polled(c) /\ conn.state # "WEBSOCKET")
                  => IF conn.poll_ticks = HTTP_TIMEOUT_TICKS - 1
                     THEN ~after.in_use /\ ~after.pcb
                     ELSE /\ conn.poll_ticks < HTTP_TIMEOUT_TICKS - 1
                          /\ after = [conn EXCEPT !.poll_ticks = @ + 1]
            /\ (Polled(c) /\ conn.state = "WEBSOCKET") => after = conn
            /\ Received(c) => (~after.in_use \/ after.poll_ticks = 0)]_vars

\* The idle timer has just closed a connection that had received part of a
\* request, while a framed channel is open.
C36_Witness ==
    /\ wire.kind = "POLL"
    /\ ~httpd.connections[wire.conn].in_use
    /\ httpd.connections[wire.conn].poll_ticks = HTTP_TIMEOUT_TICKS
    /\ httpd.connections[wire.conn].state = "RECV_BODY"
    /\ \E c \in ConnIds : Framed(httpd, c)


(***************************************************************************)
(* The tick while the host is suspended                                    *)
(***************************************************************************)
\* The 10 ms tick of hid_task, with what it found and did kept in hist.tick.
HidTick ==
    /\ usb.usb_mounted
    /\ LET r == hid_task(usb, ep)
       IN /\ usb' = r.usb
          /\ ep' = IF r.report.id # "NONE" THEN r.report.id ELSE ep
          /\ host' = Receive(host, r.report)
          /\ hist' = [HistReport(hist, usb, r.report)
                        EXCEPT !.tick = HistTick(usb, r)]
    /\ UNCHANGED <<netVars, storeVars, bootVars, mqttVars>>

\* Keys and clicks while the host suspends and resumes.
NextSuspend ==
    \/ (~usb.usb_mounted /\ Mount)
    \/ Suspend \/ Resume
    \/ HidTick \/ ReportComplete
    \/ (Queued(usb) < MaxQueued /\ PressKey)
    \/ (Queued(usb) < MaxQueued /\ ClickMouse)

SpecSuspend == Init /\ [][NextSuspend]_vars

\* C37: a tick that finds the host suspended emits no report, and it calls
\* for remote wakeup exactly when some class has pending work and the host
\* granted remote wakeup when it suspended.
C37_SuspendedTick ==
    hist.tick.suspended
        => /\ ~hist.tick.emitted
           /\ hist.tick.wakeup <=> (hist.tick.pending /\ hist.tick.granted)

\* A tick has called for remote wakeup, and the work is still pending.
C37_Witness ==
    /\ hist.tick.suspended /\ hist.tick.wakeup
    /\ usb.usb_suspended /\ AnyPending(usb)


(***************************************************************************)
(* The order of the reports of a class                                     *)
(***************************************************************************)
\* One mount session with events of all four classes; the tick and the
\* completion callback send them.
NextFifo ==
    \/ (~usb.usb_mounted /\ Mount)
    \/ HidTask \/ ReportComplete
    \/ (Queued(usb) < MaxQueued /\ PressKey)
    \/ (Queued(usb) < MaxQueued /\ ConsumerKey)
    \/ (Queued(usb) < MaxQueued /\ SystemKey)
    \/ (Queued(usb) < MaxQueued /\ ClickMouse)

SpecFifo == Init /\ [][NextFifo]_vars

\* A step in which the queue goes from f to g and the host's last report of
\* the class from old to new takes the queue's order: an event joins at the
\* end, or the event at the head leaves and is the report the host gets; the
\* host gets no report of the class otherwise.
InOrder(f, g, old, new, got) ==
    \/ g = f /\ new = old
    \/ Len(g) = Len(f) + 1 /\ SubSeq(g, 1, Len(f)) = f /\ new = old
    \/ f # <<>> /\ g = Tail(f) /\ new.sent /\ got = Head(f)

\* C38: within the keyboard, consumer, system and mouse-button class the
\* reports reach the host in the order the events were enqueued, whether the
\* tick or the completion callback sends them.
C38_ReportsInQueueOrder ==
    [][usb.usb_mounted =>
         /\ InOrder(usb.fifo_keyboard, usb'.fifo_keyboard,
                    host.kbd, host'.kbd, host'.kbd.keys)
         /\ InOrder(usb.fifo_consumer, usb'.fifo_consumer,
                    host.consumer, host'.consumer, host'.consumer.code)
         /\ InOrder(usb.fifo_system, usb'.fifo_system,
                    host.system, host'.system, host'.system.code)
         /\ \/ InOrder(usb.fifo_mouse_btn, usb'.fifo_mouse_btn,
                       host.mouse, host'.mouse, host'.mouse.buttons)
            \/ /\ usb.fifo_mouse_btn = <<>> /\ usb'.fifo_mouse_btn = <<>>
               /\ host'.mouse.buttons = usb.mouse_acc.buttons]_vars

\* Reports of every class have reached the host, the tick has sent one and
\* the callback the next, and more events wait.
C38_Witness ==
    /\ host.kbd.sent /\ host.consumer.sent /\ host.system.sent
    /\ host.mouse.sent
    /\ ep = "KEYBOARD" /\ Len(usb.fifo_keyboard) >= 1
    /\ host.kbd.keys # usb.fifo_keyboard[1]


(***************************************************************************)
(* The components of a mouse report                                        *)
(***************************************************************************)
\* v limited to -127..127: the same sign, the magnitude min(|v|, 127).
Clamp127(v) ==
    IF v > CLAMP_MAX THEN CLAMP_MAX
    ELSE IF v < -CLAMP_MAX THEN -CLAMP_MAX ELSE v

\* The step sends a mouse report.
EmitsMouse == (HidTask \/ ReportComplete) /\ usb' # usb /\ ep' = "MOUSE"

\* C39: each component of a mouse report is the accumulator's value limited
\* to -127..127, so a report never leaves a component of the accumulator
\* larger in magnitude than it was.
C39_ReportIsClampedAccumulator ==
    [][EmitsMouse =>
         /\ host'.mouse.dx = Clamp127(usb.mouse_acc.dx)
         /\ host'.mouse.dy = Clamp127(usb.mouse_acc.dy)
         /\ host'.mouse.vertical = Clamp127(usb.mouse_acc.vertical)
         /\ host'.mouse.horizontal = Clamp127(usb.mouse_acc.horizontal)
         /\ Abs(usb'.mouse_acc.dx) <= Abs(usb.mouse_acc.dx)
         /\ Abs(usb'.mouse_acc.dy) <= Abs(usb.mouse_acc.dy)
         /\ Abs(usb'.mouse_acc.vertical) <= Abs(usb.mouse_acc.vertical)
         /\ Abs(usb'.mouse_acc.horizontal) <= Abs(usb.mouse_acc.horizontal)]_vars


(***************************************************************************)
(* Two ingresses: the framed channel and the subscription                  *)
(***************************************************************************)
\* mqtt_handle_mouse_move on {"x": x, "y": y}.
mqtt_handle_mouse_move(m, u, x, y) ==
    LET cx == IF x < -CLAMP_MAX THEN -CLAMP_MAX
              ELSE IF x > CLAMP_MAX THEN CLAMP_MAX ELSE x
        cy == IF y < -CLAMP_MAX THEN -CLAMP_MAX
              ELSE IF y > CLAMP_MAX THEN CLAMP_MAX ELSE y
        a == move_mouse_call(u, m.mqtt_mouse_buttons, ToInt8(cx), ToInt8(cy),
                             0, 0)
    IN move_mouse(u, a.buttons, a.x, a.y, a.vertical, a.horizontal)

\* mqtt_handle_scroll on {"x": x, "y": y}: y is the vertical wheel.
mqtt_handle_scroll(m, u, x, y) ==
    LET cx == IF x < -CLAMP_MAX THEN -CLAMP_MAX
              ELSE IF x > CLAMP_MAX THEN CLAMP_MAX ELSE x
        cy == IF y < -CLAMP_MAX THEN -CLAMP_MAX
              ELSE IF y > CLAMP_MAX THEN CLAMP_MAX ELSE y
        a == move_mouse_call(u, m.mqtt_mouse_buttons, 0, 0, ToInt8(cy),
                             ToInt8(cx))
    IN move_mouse(u, a.buttons, a.x, a.y, a.vertical, a.horizontal)

\* mqtt_handle_mouse_button on {"button": button_bit} with or without "down".
mqtt_handle_mouse_button(m, u, button_bit, has_down, is_down) ==
    IF button_bit < 1 \/ button_bit > 31 THEN [mqtt |-> m, usb |-> u]
    ELSE LET on == BitOr(m.mqtt_mouse_buttons, button_bit)
             off == BitClear(m.mqtt_mouse_buttons, button_bit)
         IN IF ~has_down
            THEN [mqtt |-> [m EXCEPT !.mqtt_mouse_buttons =
                                        BitClear(on, button_bit)],
                  usb |-> move_mouse(move_mouse(u, on, 0, 0, 0, 0),
                                     BitClear(on, button_bit), 0, 0, 0, 0)]
            ELSE IF is_down
            THEN [mqtt |-> [m EXCEPT !.mqtt_mouse_buttons = on],
                  usb |-> move_mouse(u, on, 0, 0, 0, 0)]
            ELSE [mqtt |-> [m EXCEPT !.mqtt_mouse_buttons = off],
                  usb |-> move_mouse(u, off, 0, 0, 0, 0)]

\* No movement waits in the accumulator.
Still(u) ==
    /\ u.mouse_acc.dx = 0 /\ u.mouse_acc.dy = 0
    /\ u.mouse_acc.vertical = 0 /\ u.mouse_acc.horizontal = 0

\* The account of a movement call that took the accumulator from u to v.
Moved(h, u, v, buttons) ==
    HistMove(h, u, buttons, v.mouse_acc.dx - u.mouse_acc.dx,
             v.mouse_acc.dy - u.mouse_acc.dy,
             v.mouse_acc.vertical - u.mouse_acc.vertical,
             v.mouse_acc.horizontal - u.mouse_acc.horizontal)

\* A mouse/move message arrives on the subscription.
MqttMouseMove ==
    /\ mqtt.client /\ mqtt.mqtt_state = "READY"
    /\ Queued(usb) < MaxQueued /\ Still(usb)
    /\ \E x \in {-300} : usb' = mqtt_handle_mouse_move(mqtt, usb, x, 0)
    /\ hist' = Moved(hist, usb, usb', mqtt.mqtt_mouse_buttons)
    /\ UNCHANGED <<ep, host, netVars, storeVars, bootVars, mqttVars>>

\* A scroll message arrives on the subscription.
MqttScroll ==
    /\ mqtt.client /\ mqtt.mqtt_state = "READY"
    /\ Queued(usb) < MaxQueued /\ Still(usb)
    /\ \E y \in {-3} : usb' = mqtt_handle_scroll(mqtt, usb, 0, y)
    /\ hist' = Moved(hist, usb, usb', mqtt.mqtt_mouse_buttons)
    /\ UNCHANGED <<ep, host, netVars, storeVars, bootVars, mqttVars>>

\* A mouse/button message arrives on the subscription.
MqttMouseButton ==
    /\ mqtt.client /\ mqtt.mqtt_state = "READY"
    /\ Queued(usb) < MaxQueued
    /\ \E button_bit \in {0, 2}, has_down \in BOOLEAN, is_down \in BOOLEAN :
         LET r == mqtt_handle_mouse_button(mqtt, usb, button_bit, has_down,
                                           is_down)
         IN /\ mqtt' = r.mqtt
            /\ usb' = r.usb
    /\ UNCHANGED <<ep, host, hist, netVars, storeVars, bootVars, clock,
                   backoff, broker>>

\* Button frames of the framed channel: the left button down and up.
ButtonFrames ==
    [opcode : {"BINARY"},
     cmd : [type : {"MOUSE_BUTTON"}, arg : {1}, down : BOOLEAN]]

\* Movement and scroll frames of the framed channel.
MoveFrames ==
    [opcode : {"BINARY"},
     cmd : [type : {"MOUSE_MOVE", "SCROLL"}, arg : {<<5, 0>>}, down : {FALSE}]]

WsMouseButton == WsFrameFrom(ButtonFrames)

\* http_recv on a connection of the framed channel with one movement or
\* scroll frame.
WsMouseMove ==
    \E c \in ConnIds, frame \in MoveFrames :
        /\ httpd.connections[c].in_use /\ httpd.connections[c].pcb
        /\ httpd.connections[c].state = "WEBSOCKET"
        /\ Queued(usb) < MaxQueued /\ Still(usb)
        /\ LET r == process_websocket_frame(usb, http_recv_reset(httpd, c), c,
                                            frame)
           IN /\ usb' = r.usb
              /\ httpd' = r.httpd
              /\ hist' = Moved(hist, usb, r.usb,
                               httpd.connections[c].ws_mouse_buttons)
              /\ wire' = [WireInit EXCEPT !.kind = "FRAME", !.conn = c,
                                          !.framed = TRUE, !.log = r.log]
        /\ UNCHANGED <<ep, host, storeVars, bootVars, mqttVars>>

\* No connection is open and no HID event waits.
Quiet == (\A c \in ConnIds : ~httpd.connections[c].in_use) /\ ~AnyPending(usb)

\* A mounted device with the subscription and then one connection of the
\* framed channel; the client is brought up before the connection opens,
\* and commands are taken while few events are queued.
NextIngress ==
    \/ (~usb.usb_mounted /\ Mount)
    \/ HidTask
    \/ ReportComplete
    \/ (Quiet /\ mqtt.mqtt_state = "READY" /\ Accept)
    \/ Request
    \/ WsMouseButton
    \/ WsMouseMove
    \/ (Quiet /\ MqttTask)
    \/ (Quiet /\ MqttConnection)
    \/ MqttSubscribed
    \/ MqttMouseButton
    \/ MqttMouseMove
    \/ MqttScroll

SpecIngress == Init /\ [][NextIngress]_vars

\* The button mask the framed channel's session has established.
WsButtons ==
    IF SessionActive(httpd)
    THEN httpd.connections[httpd.ws_active_conn].ws_mouse_buttons ELSE 0

\* C40: a movement or scroll command from one ingress leaves the buttons
\* pressed through the other ingress as they were in the HID core: a
\* movement or scroll on the subscription keeps the buttons of the framed
\* channel's session, and a movement or scroll frame keeps the buttons
\* pressed on the subscription.
C40_MovementKeepsOtherButtons ==
    [][/\ (MqttMouseMove \/ MqttScroll)
            => BitAnd(usb'.mouse_acc.buttons, WsButtons)
                 = BitAnd(usb.mouse_acc.buttons, WsButtons)
       /\ WsMouseMove
            => BitAnd(usb'.mouse_acc.buttons, mqtt.mqtt_mouse_buttons)
                 = BitAnd(usb.mouse_acc.buttons, mqtt.mqtt_mouse_buttons)]_vars

====
